---- MODULE Spec2Model ----
(***************************************************************************)
(* Model of pyxldrawer: the Drawer cursor (drawer.py and the earlier       *)
(* revision pyxldrawer.py) and the drawing elements (elements.py and the   *)
(* earlier revision elements/basic.py, elements/matrix.py and              *)
(* elements/complex.py).                                                   *)
(***************************************************************************)
EXTENDS Integers, Sequences, FiniteSets, TLC

\* ------------------------------------------------------------------------
\* Bounds

\* the cursor is taken to the cells (x, y) with x + y <= MaxReach
MaxReach == 1
\* entries one run records: history entries, checkpoints, the drawn extent
MaxSize == 3
\* largest amount of one move
MaxStep == 1
\* largest height and width of a drawn component
MaxDim == 2

\* a Matrix has at most MaxSide rows and MaxSide columns
MaxSide == 3

\* ------------------------------------------------------------------------
\* Python values handed to the Drawer: ints, floats (any non-int number)
\* and None.

IntV(n) == [k |-> "int", v |-> n]

FloatV(n) == [k |-> "float", v |-> n]

NoneV == [k |-> "none", v |-> 0]

\* strings and None, where a string is expected; a string is the sequence
\* of its characters
StrV(t) == [k |-> "str", s |-> t]

NoneS == [k |-> "none", s |-> <<>>]

\* int + int is an int, anything involving a float is a float
PyAdd(a, b) == [k |-> IF a.k = "int" /\ b.k = "int" THEN "int" ELSE "float", v |-> a.v + b.v]

PySub(a, b) == [k |-> IF a.k = "int" /\ b.k = "int" THEN "int" ELSE "float", v |-> a.v - b.v]

\* list[i] of Python as a 1-based position; 0 when i is out of range
PyIndex(s, i) ==
    LET p == IF i < 0 THEN Len(s) + i + 1 ELSE i + 1
    IN  IF p \in 1..Len(s) THEN p ELSE 0

\* the two source revisions of the Drawer class
Revisions == {"drawer", "pyxldrawer"}

CpNames == {"a", "b"}

\* a checkpoint reference: None, a name or an integer index
CpNone == [k |-> "none", name |-> "", i |-> 0]

CpName(n) == [k |-> "str", name |-> n, i |-> 0]

CpIdx(i) == [k |-> "int", name |-> "", i |-> i]

\* the two source revisions of the Element class
ElementRevisions == {"elements", "basic"}

\* the Drawer: its revision and its attributes
VARIABLES rev, x, y, height, width, prev_x, prev_y, checkpoints

\* one Element: its revision, its attributes, and the calls its last draw
\* made on the worksheet and the workbook
VARIABLES erev, elem, calls

\* one Matrix: its attributes, and the arguments it was constructed with
VARIABLES mat, built

\* one composite: a LineElement, a TreeElement or a Dictionary
VARIABLES comp

\* the last call and the history variable of the checkpoints
VARIABLES op, saved

dvars == <<rev, x, y, height, width, prev_x, prev_y, checkpoints, saved>>

evars == <<erev, elem, calls, mat, built, comp>>

vars == <<dvars, evars, op>>

\* saved is a history variable: for every name, the position the cursor had
\* at the latest add_checkpoint(name), <<>> before the first one.
\* op is what the last call showed to its caller: the method called, the
\* error it signalled and the position it handed to the component it drew
Op(name, err, out) == [name |-> name, err |-> err, out |-> out]

Size == Len(prev_x) + Len(checkpoints) + (IF height = 0 THEN 0 ELSE 1)

\* ------------------------------------------------------------------------
\* Drawer.x / Drawer.y setters: the error the assignment signals

\* the setter without its test for negative values
CoordErr_AllowsNegative(value) == IF value.k # "int" THEN "TypeError" ELSE "none"

CoordErr(value) ==
    IF value.k # "int" THEN "TypeError"
    ELSE IF value.v < 0 THEN "ValueError"
    ELSE "none"

\* OrderedDict: checkpoints is a sequence of [name, pos] in insertion order
CpHas(cps, name) == \E i \in 1..Len(cps) : cps[i].name = name

CpGet(cps, name) == cps[CHOOSE i \in 1..Len(cps) : cps[i].name = name].pos

\* a checkpoint that exists is not overwritten
CpPut_KeepsFirst(cps, name, pos) ==
    IF CpHas(cps, name) THEN cps ELSE Append(cps, [name |-> name, pos |-> pos])

CpPut(cps, name, pos) ==
    IF CpHas(cps, name)
    THEN [i \in 1..Len(cps) |-> IF cps[i].name = name THEN [name |-> name, pos |-> pos] ELSE cps[i]]
    ELSE Append(cps, [name |-> name, pos |-> pos])

\* ------------------------------------------------------------------------
\* Drawer.__init__

DrawerInit(x0, y0) ==
    /\ x = x0
    /\ y = y0
    /\ height = 0
    /\ width = 0
    /\ checkpoints = <<>>
    /\ prev_x = <<>>
    /\ prev_y = <<>>
    /\ saved = [n \in CpNames |-> <<>>]

\* Element.value setter: elements.py turns a null value into the empty
\* string, elements/basic.py keeps the value as it is
ValueSet(r, value) == IF r = "elements" /\ value.k = "none" THEN StrV(<<>>) ELSE value

\* Element.__init__ with valid arguments; style is "dict" for a style dict
\* and "format" for a resolved xlsxwriter Format
ElementInit(value, h, w, style, comment) ==
    elem = [value |-> ValueSet(erev, value), height |-> h, width |-> w,
            style |-> style, comment |-> comment]

\* a Drawer of either revision, constructed at any position
Init ==
    /\ rev \in Revisions
    /\ \E x0 \in 0..MaxReach, y0 \in 0..MaxReach : x0 + y0 <= MaxReach /\ DrawerInit(x0, y0)
    /\ erev = "elements"
    /\ ElementInit(StrV(<<>>), 1, 1, "dict", NoneS)
    /\ calls = <<>>
    /\ mat = <<>>
    /\ built = <<>>
    /\ comp = <<>>
    /\ op = Op("init", "none", <<>>)

\* ------------------------------------------------------------------------
\* Drawer.draw: hands the position to the component, records its extent

\* draw that records the extent with height and width exchanged
Draw_SwapsExtent(h, w) ==
    /\ height # 0 \/ Size < MaxSize
    /\ height' = w
    /\ width' = h
    /\ op' = Op("draw", "none", <<x, y>>)
    /\ UNCHANGED <<rev, x, y, prev_x, prev_y, checkpoints, saved, evars>>

Draw(h, w) ==
    /\ height # 0 \/ Size < MaxSize
    /\ height' = h
    /\ width' = w
    /\ op' = Op("draw", "none", <<x, y>>)
    /\ UNCHANGED <<rev, x, y, prev_x, prev_y, checkpoints, saved, evars>>

\* ------------------------------------------------------------------------
\* Drawer.move: the position and the error it ends with

\* move that ignores back
MoveRes_IgnoresBack(dx, dy, back) ==
    LET nx == PyAdd(IntV(x), dx)
        ny == PyAdd(IntV(y), dy)
    IN  IF CoordErr(nx) # "none" THEN [x |-> x, y |-> y, err |-> CoordErr(nx)]
        ELSE IF CoordErr(ny) # "none" THEN [x |-> nx.v, y |-> y, err |-> CoordErr(ny)]
        ELSE [x |-> nx.v, y |-> ny.v, err |-> "none"]

MoveRes(dx, dy, back) ==
    LET nx == IF back THEN PySub(IntV(x), dx) ELSE PyAdd(IntV(x), dx)
        ny == IF back THEN PySub(IntV(y), dy) ELSE PyAdd(IntV(y), dy)
    IN  IF CoordErr(nx) # "none" THEN [x |-> x, y |-> y, err |-> CoordErr(nx)]
        ELSE IF CoordErr(ny) # "none" THEN [x |-> nx.v, y |-> y, err |-> CoordErr(ny)]
        ELSE [x |-> nx.v, y |-> ny.v, err |-> "none"]

\* the amounts handed to the moves
Steps == {IntV(n) : n \in 0..MaxStep}

Deltas == Steps \cup {FloatV(1)}

\* the calls of move that are explored: every pair of integer amounts, a
\* float for dx, and a float for dy after an integer dx
MoveArgs ==
    {[dx |-> dx, dy |-> dy, back |-> back] : dx \in Steps, dy \in Steps, back \in BOOLEAN}
    \cup {[dx |-> FloatV(1), dy |-> IntV(0), back |-> back] : back \in BOOLEAN}
    \cup {[dx |-> IntV(1), dy |-> FloatV(1), back |-> back] : back \in BOOLEAN}

DoMove(name, dx, dy, back) ==
    LET r == MoveRes(dx, dy, back)
    IN  /\ Size < MaxSize
        /\ r.x + r.y <= MaxReach
        /\ prev_x' = Append(prev_x, x)
        /\ prev_y' = Append(prev_y, y)
        /\ x' = r.x
        /\ y' = r.y
        /\ op' = Op(name, r.err, <<>>)
        /\ UNCHANGED <<rev, height, width, checkpoints, saved, evars>>

Move(dx, dy, back) == DoMove("move", dx, dy, back)

\* Drawer.move_horizontal: the amount defaults to the last drawn width.
\* drawer.py moves along y, pyxldrawer.py along x.
MoveHorizontalDrawer(amount, back) ==
    LET d == IF amount.k = "none" THEN IntV(width) ELSE amount
    IN  DoMove("move_horizontal", IntV(0), d, back)

MoveHorizontalPyxl(amount, back) ==
    LET d == IF amount.k = "none" THEN IntV(width) ELSE amount
    IN  DoMove("move_horizontal", d, IntV(0), back)

MoveHorizontal(amount, back) ==
    IF rev = "drawer" THEN MoveHorizontalDrawer(amount, back)
    ELSE MoveHorizontalPyxl(amount, back)

\* Drawer.move_vertical: the amount defaults to the last drawn height.
\* drawer.py moves along x, pyxldrawer.py along y.
MoveVerticalDrawer(amount, back) ==
    LET d == IF amount.k = "none" THEN IntV(height) ELSE amount
    IN  DoMove("move_vertical", d, IntV(0), back)

MoveVerticalPyxl(amount, back) ==
    LET d == IF amount.k = "none" THEN IntV(height) ELSE amount
    IN  DoMove("move_vertical", IntV(0), d, back)

MoveVertical(amount, back) ==
    IF rev = "drawer" THEN MoveVerticalDrawer(amount, back)
    ELSE MoveVerticalPyxl(amount, back)

\* ------------------------------------------------------------------------
\* Drawer.add_checkpoint

AddCheckpoint(name) ==
    /\ CpHas(checkpoints, name) \/ Size < MaxSize
    /\ checkpoints' = CpPut(checkpoints, name, <<x, y>>)
    /\ op' = Op("add_checkpoint", "none", <<>>)
    /\ saved' = [saved EXCEPT ![name] = <<x, y>>]
    /\ UNCHANGED <<rev, x, y, height, width, prev_x, prev_y, evars>>

\* ------------------------------------------------------------------------
\* Drawer.reset.  kw says that the call passes the keywords change_x and
\* change_y (cx, cy); drawer.py has no such parameters and the call fails
\* before the body runs.  app says whether the history was appended to.

\* the arguments of one call of reset
ResetCall(cp, xa, ya, kw, cx, cy) ==
    [cp |-> cp, xa |-> xa, ya |-> ya, kw |-> kw, cx |-> cx, cy |-> cy]

\* assigning v to one axis: the new coordinate and the error
SetAxis(old, on, v) ==
    IF ~on THEN [c |-> old, err |-> "none"]
    ELSE IF CoordErr(v) # "none" THEN [c |-> old, err |-> CoordErr(v)]
    ELSE [c |-> v.v, err |-> "none"]

\* the two assignments without the two appends before them
SetBoth_NoHistory(onx, vx, ony, vy) ==
    LET rx == SetAxis(x, onx, vx)
    IN  IF rx.err # "none" THEN [x |-> x, y |-> y, err |-> rx.err, app |-> FALSE]
        ELSE LET ry == SetAxis(y, ony, vy)
             IN  [x |-> rx.c, y |-> ry.c, err |-> ry.err, app |-> FALSE]

\* the two assignments of one branch of reset, x first
SetBoth(onx, vx, ony, vy) ==
    LET rx == SetAxis(x, onx, vx)
    IN  IF rx.err # "none" THEN [x |-> x, y |-> y, err |-> rx.err, app |-> TRUE]
        ELSE LET ry == SetAxis(y, ony, vy)
             IN  [x |-> rx.c, y |-> ry.c, err |-> ry.err, app |-> TRUE]

\* whether reset changes an axis: drawer.py tests the coordinate argument
\* against None, pyxldrawer.py tests the flag change_x / change_y
ToggleDrawer(v) == v.k # "none"

TogglePyxl(flag) == flag

ResetRes(cp, xa, ya, kw, cx, cy) ==
    LET onx == IF rev = "drawer" THEN ToggleDrawer(xa) ELSE TogglePyxl(cx)
        ony == IF rev = "drawer" THEN ToggleDrawer(ya) ELSE TogglePyxl(cy)
    IN  IF kw /\ rev = "drawer"
        THEN {[x |-> x, y |-> y, err |-> "TypeError", app |-> FALSE]}
        ELSE IF cp.k = "str"
        THEN IF (onx \/ ony) /\ ~CpHas(checkpoints, cp.name)
             THEN {[x |-> x, y |-> y, err |-> "KeyError", app |-> TRUE]}
             ELSE IF ~(onx \/ ony) THEN {[x |-> x, y |-> y, err |-> "none", app |-> TRUE]}
             ELSE {SetBoth(onx, IntV(CpGet(checkpoints, cp.name)[1]),
                           ony, IntV(CpGet(checkpoints, cp.name)[2]))}
        ELSE IF cp.k = "int"
        THEN \* keys()[i] is not subscriptable (Python 3); on Python 2 the
             \* key is turned into a list, which is unhashable
             {[x |-> x, y |-> y, err |-> e, app |-> TRUE] :
                e \in IF PyIndex(checkpoints, cp.i) # 0 THEN {"TypeError"}
                      ELSE {"TypeError", "IndexError"}}
        ELSE {SetBoth(onx, xa, ony, ya)}

DoReset(name, r) ==
    /\ Size < MaxSize
    /\ r.x + r.y <= MaxReach
    /\ prev_x' = IF r.app THEN Append(prev_x, x) ELSE prev_x
    /\ prev_y' = IF r.app THEN Append(prev_y, y) ELSE prev_y
    /\ x' = r.x
    /\ y' = r.y
    /\ op' = Op(name, r.err, <<>>)
    /\ UNCHANGED <<rev, height, width, checkpoints, saved, evars>>

Reset(cp, xa, ya, kw, cx, cy) ==
    \E r \in ResetRes(cp, xa, ya, kw, cx, cy) : DoReset("reset", r)

\* the calls of reset that are explored: explicit coordinates (every valid
\* pair, a rejected value on either axis, None on either axis), checkpoint
\* names with either axis toggled by None, checkpoint indexes, and calls
\* with the keywords, one of them False
BadCoords == {IntV(-1), FloatV(1)}

CpIdxs == {CpIdx(i) : i \in 0..(Cardinality(CpNames) - 1)}

ResetArgs ==
    {ResetCall(CpNone, IntV(a), IntV(b), FALSE, TRUE, TRUE) : a \in 0..MaxReach, b \in 0..MaxReach}
    \cup {ResetCall(CpNone, a, IntV(0), FALSE, TRUE, TRUE) : a \in BadCoords \cup {NoneV}}
    \cup {ResetCall(CpNone, IntV(MaxReach), b, FALSE, TRUE, TRUE) : b \in BadCoords \cup {NoneV}}
    \cup {ResetCall(CpNone, NoneV, NoneV, FALSE, TRUE, TRUE)}
    \cup {ResetCall(CpName(n), a, b, FALSE, TRUE, TRUE) :
            n \in CpNames, a \in {NoneV, IntV(0)}, b \in {NoneV, IntV(0)}}
    \cup {ResetCall(c, a, IntV(0), FALSE, TRUE, TRUE) : c \in CpIdxs, a \in {NoneV, IntV(0)}}
    \cup {ResetCall(c, IntV(0), IntV(MaxReach), TRUE, p, ~p) :
            c \in {CpNone, CpName("a"), CpIdx(0)}, p \in BOOLEAN}

\* ------------------------------------------------------------------------
\* Drawer.fallback: reads the two history lists, then calls reset with
\* change_x = True, change_y = True

\* what fallback(n) ends with: prev_x[-n] fails on a history shorter than n
FallbackRes(n) ==
    IF PyIndex(prev_x, -n) = 0
    THEN {[x |-> x, y |-> y, err |-> "IndexError", app |-> FALSE]}
    ELSE ResetRes(CpNone, IntV(prev_x[PyIndex(prev_x, -n)]),
                  IntV(prev_y[PyIndex(prev_y, -n)]), TRUE, TRUE, TRUE)

Fallback(n) ==
    IF PyIndex(prev_x, -n) = 0
    THEN /\ op' = Op("fallback", "IndexError", <<>>)
         /\ UNCHANGED <<rev, x, y, height, width, prev_x, prev_y, checkpoints, saved, evars>>
    ELSE \E r \in FallbackRes(n) : DoReset("fallback", r)

\* ------------------------------------------------------------------------

Amounts == Deltas \cup {NoneV}

\* the extents (height, width) of the components drawn
Shapes == {<<h, MaxDim + 1 - h>> : h \in 1..MaxDim}

Next ==
    \/ \E s \in Shapes : Draw(s[1], s[2])
    \/ \E a \in MoveArgs : Move(a.dx, a.dy, a.back)
    \/ \E a \in Amounts, back \in BOOLEAN : MoveHorizontal(a, back)
    \/ \E a \in Amounts, back \in BOOLEAN : MoveVertical(a, back)
    \/ \E name \in CpNames : AddCheckpoint(name)
    \/ \E a \in ResetArgs : Reset(a.cp, a.xa, a.ya, a.kw, a.cx, a.cy)
    \/ \E n \in 0..MaxSize : Fallback(n)

Spec == Init /\ [][Next]_vars

\* ------------------------------------------------------------------------
\* xlsxwriter.utility, as the elements use it.  A column name is the sequence
\* of its letters (1 for A .. 26 for Z), a cell name the pair of the column
\* name and the row number counted from 1.

RECURSIVE XlColToName(_)
XlColToName(col) ==
    LET n == col + 1
        r == IF n % 26 = 0 THEN 26 ELSE n % 26
        q == (n - 1) \div 26
    IN  IF q = 0 THEN <<r>> ELSE XlColToName(q - 1) \o <<r>>

XlRowColToCell(row, col) == <<XlColToName(col), row + 1>>

RECURSIVE XlNameToCol(_)
XlNameToCol(name) ==
    IF Len(name) = 1 THEN name[1] - 1
    ELSE (XlNameToCol(SubSeq(name, 1, Len(name) - 1)) + 1) * 26 + name[Len(name)] - 1

\* the (row, column) a cell name stands for
XlCellToRowCol(cell) == <<cell[2] - 1, XlNameToCol(cell[1])>>

\* ------------------------------------------------------------------------
\* Element.xl_upleft, Element.xl_loright, Element.xl_range

XlUpleftElements(xa, ya) == XlRowColToCell(xa, ya)

XlUpleftBasic(xa, ya) == XlRowColToCell(ya, xa)

XlUpleft(r, xa, ya) ==
    IF r = "elements" THEN XlUpleftElements(xa, ya) ELSE XlUpleftBasic(xa, ya)

XlLorightElements(e, xa, ya) == XlRowColToCell(xa + e.height - 1, ya + e.width - 1)

XlLorightBasic(e, xa, ya) == XlRowColToCell(ya + e.height - 1, xa + e.width - 1)

XlLoright(r, e, xa, ya) ==
    IF r = "elements" THEN XlLorightElements(e, xa, ya) ELSE XlLorightBasic(e, xa, ya)

\* upleft + ':' + loright
XlRange(r, e, xa, ya) == <<XlUpleft(r, xa, ya), XlLoright(r, e, xa, ya)>>

\* one call on the worksheet or the workbook
Call(fn, a) == [fn |-> fn, a |-> a]

\* Element.make_style: a style dict is registered in the workbook

\* make_style without its test for a dict
MakeStyleCalls_Always(e) == <<Call("add_format", <<>>)>>

MakeStyleCalls(e) == IF e.style = "dict" THEN <<Call("add_format", <<>>)>> ELSE <<>>

\* the test of Element.draw for writing one cell
WritesCellElements(e) == e.width = 1 /\ e.height = 1

WritesCellBasic(xa, ya) == xa = 1 /\ ya = 1

WritesCell(r, e, xa, ya) ==
    IF r = "elements" THEN WritesCellElements(e) ELSE WritesCellBasic(xa, ya)

\* Element.draw: the calls it makes, in order
ElementDrawCalls(r, e, xa, ya) ==
    MakeStyleCalls(e)
    \o (IF WritesCell(r, e, xa, ya)
        THEN <<Call("write", <<xa, ya, e.value>>)>>
        ELSE <<Call("merge_range", <<XlRange(r, e, xa, ya), e.value>>)>>)
    \o (IF e.comment.k # "none"
        THEN <<Call("write_comment", <<XlUpleft(r, xa, ya), e.comment>>)>>
        ELSE <<>>)

ElementDraw(xa, ya) ==
    /\ calls' = ElementDrawCalls(erev, elem, xa, ya)
    /\ elem' = [elem EXCEPT !.style = "format"]
    /\ op' = Op("element_draw", "none", <<>>)
    /\ UNCHANGED <<dvars, erev, mat, built, comp>>

\* Element.height and Element.width setters: the error the assignment signals

\* the setters without their test for values below one
ExtentErr_AllowsZero(value) == IF value.k # "int" THEN "TypeError" ELSE "none"

ExtentErr(value) ==
    IF value.k # "int" THEN "TypeError"
    ELSE IF value.v <= 0 THEN "ValueError"
    ELSE "none"

\* Element.__init__ assigns the height before the width: the error of the
\* first assignment that fails
ElementNewErr(h, w) == IF ExtentErr(h) # "none" THEN ExtentErr(h) ELSE ExtentErr(w)

\* Element(value, height, width, style, comment): a failed construction
\* leaves no new element
ElementNew(value, h, w, style, comment) ==
    LET err == ElementNewErr(h, w)
    IN  /\ elem' = IF err = "none"
                   THEN [value |-> ValueSet(erev, value), height |-> h.v, width |-> w.v,
                         style |-> style, comment |-> comment]
                   ELSE elem
        /\ calls' = IF err = "none" THEN <<>> ELSE calls
        /\ op' = Op("element_new", err, <<>>)
        /\ UNCHANGED <<dvars, erev, mat, built, comp>>

\* element.height = value: the attribute is assigned after the tests passed
ElementSetHeight(value) ==
    /\ elem' = IF ExtentErr(value) = "none" THEN [elem EXCEPT !.height = value.v] ELSE elem
    /\ op' = Op("set_height", ExtentErr(value), <<>>)
    /\ UNCHANGED <<dvars, erev, calls, mat, built, comp>>

\* element.width = value
ElementSetWidth(value) ==
    /\ elem' = IF ExtentErr(value) = "none" THEN [elem EXCEPT !.width = value.v] ELSE elem
    /\ op' = Op("set_width", ExtentErr(value), <<>>)
    /\ UNCHANGED <<dvars, erev, calls, mat, built, comp>>

ElemValues == {StrV(<<"a", "b", "c">>), NoneS}

ElemComments == {StrV(<<"n", "o", "t", "e">>), NoneS}

ElemStyles == {"dict", "format"}

Extents == {IntV(n) : n \in 0..MaxDim} \cup {FloatV(1)}

\* the arguments of the constructions: every valid one, and every pair of
\* extents with an invalid one for one choice of the other arguments
ElemArgs ==
    {[value |-> value, h |-> h, w |-> w, style |-> style, comment |-> comment] :
        value \in ElemValues, h \in Extents, w \in Extents,
        style \in ElemStyles, comment \in ElemComments}

ElemNewArgs ==
    {a \in ElemArgs :
        \/ ElementNewErr(a.h, a.w) = "none"
        \/ a.value.k = "str" /\ a.style = "dict" /\ a.comment.k = "none"}

\* the anchors the element is drawn at
Anchors == {<<n, n>> : n \in 0..MaxReach} \cup {<<0, MaxReach>>}

\* an Element of either revision, constructed with valid arguments; the
\* Drawer is left alone
InitElem ==
    /\ rev = "drawer"
    /\ DrawerInit(0, 0)
    /\ erev \in ElementRevisions
    /\ \E value \in ElemValues, h \in 1..MaxDim, w \in 1..MaxDim,
          style \in ElemStyles, comment \in ElemComments :
            ElementInit(value, h, w, style, comment)
    /\ calls = <<>>
    /\ mat = <<>>
    /\ built = <<>>
    /\ comp = <<>>
    /\ op = Op("init", "none", <<>>)

NextElem ==
    \/ \E a \in Anchors : ElementDraw(a[1], a[2])
    \/ \E a \in ElemNewArgs : ElementNew(a.value, a.h, a.w, a.style, a.comment)
    \/ \E value \in Extents : ElementSetHeight(value)
    \/ \E value \in Extents : ElementSetWidth(value)

SpecElem == InitElem /\ [][NextElem]_vars

\* ------------------------------------------------------------------------
\* HeaderElement.  A float is the fraction <<numerator, denominator>> in
\* lowest terms, so that sums and quotients are exact.

RECURSIVE Gcd(_, _)
Gcd(a, b) == IF b = 0 THEN a ELSE Gcd(b, a % b)

Frac(n, d) == <<n \div Gcd(n, d), d \div Gcd(n, d)>>

\* col_width as it is handed to the constructor: 'auto', another string,
\* None, or a number
AutoW == [k |-> "auto", f |-> <<0, 1>>]

StrW == [k |-> "str", f |-> <<0, 1>>]

NoneW == [k |-> "none", f |-> <<0, 1>>]

FloatW(f) == [k |-> "float", f |-> f]

\* HeaderElement.col_width setter: the error the assignment signals.
\* elements.py accepts 'auto', None and numbers; elements/basic.py hands
\* the value to float(), which refuses every such string and None
ColWidthErr(r, value) ==
    IF r = "elements" THEN (IF value.k = "str" THEN "ValueError" ELSE "none")
    ELSE IF value.k \in {"auto", "str"} THEN "ValueError"
    ELSE IF value.k = "none" THEN "TypeError"
    ELSE "none"

\* the decimal digits of a natural number, as characters
RECURSIVE PyStrNat(_)
PyStrNat(n) ==
    LET digit == <<"0", "1", "2", "3", "4", "5", "6", "7", "8", "9">>[(n % 10) + 1]
    IN  IF n < 10 THEN <<digit>> ELSE PyStrNat(n \div 10) \o <<digit>>

\* str(value)
PyStr(value) ==
    IF value.k = "str" THEN value.s
    ELSE IF value.k = "int" THEN PyStrNat(value.v)
    ELSE <<"N", "o", "n", "e">>

\* HeaderElement._value_len (value_len in elements/basic.py): -1 stands
\* for None
ValueLen(e) == IF e.value.k = "none" THEN -1 ELSE Len(PyStr(e.value))

\* float(self._value_len() + self.padding * 2) / self.width
AutoWidth(e) ==
    Frac(ValueLen(e) * e.padding[2] + 2 * e.padding[1], e.padding[2] * e.width)

\* the end of HeaderElement.draw: the width it sets, if any.  None + float
\* raises the TypeError that draw catches.  The first column handed to
\* set_column is y in elements.py, x in elements/basic.py
HeaderSizeCalls(r, e, xa, ya) ==
    LET first == IF r = "elements" THEN ya ELSE xa
        last == first + e.width - 1
    IN  IF e.col_width.k = "float"
        THEN <<Call("set_column", <<first, last, e.col_width.f>>)>>
        ELSE IF e.col_width.k = "auto" /\ ValueLen(e) # -1
        THEN <<Call("set_column", <<first, last, AutoWidth(e)>>)>>
        ELSE <<>>

\* HeaderElement.draw: the calls it makes, in order
HeaderDrawCalls(r, e, xa, ya) == ElementDrawCalls(r, e, xa, ya) \o HeaderSizeCalls(r, e, xa, ya)

HeaderDraw(xa, ya) ==
    /\ calls' = HeaderDrawCalls(erev, elem, xa, ya)
    /\ elem' = [elem EXCEPT !.style = "format"]
    /\ op' = Op("header_draw", "none", <<>>)
    /\ UNCHANGED <<dvars, erev, mat, built, comp>>

\* HeaderElement.__init__: Element.__init__, then col_width, then padding
HeaderNewErr(r, h, w, col_width) ==
    IF ElementNewErr(h, w) # "none" THEN ElementNewErr(h, w) ELSE ColWidthErr(r, col_width)

HeaderNew(value, h, w, style, comment, col_width, padding) ==
    LET err == HeaderNewErr(erev, h, w, col_width)
    IN  /\ elem' = IF err = "none"
                   THEN [value |-> ValueSet(erev, value), height |-> h.v, width |-> w.v,
                         style |-> style, comment |-> comment,
                         col_width |-> col_width, padding |-> padding]
                   ELSE elem
        /\ calls' = IF err = "none" THEN <<>> ELSE calls
        /\ op' = Op("header_new", err, <<>>)
        /\ UNCHANGED <<dvars, erev, mat, built, comp>>

\* the values of the header cells: a string, a number and None
HeaderValues == {StrV(<<"a", "b", "c">>), IntV(12), NoneS}

\* paddings 1.0 and 0.5
Paddings == {<<1, 1>>, <<1, 2>>}

ColWidths == {AutoW, StrW, NoneW, FloatW(<<4, 1>>)}

HeaderArgs ==
    {[value |-> value, h |-> IntV(1), w |-> w, style |-> "dict", comment |-> NoneS,
      col_width |-> c, padding |-> p] :
        value \in HeaderValues, w \in Extents, c \in ColWidths, p \in Paddings}

\* a HeaderElement of either revision with a fixed column width
InitHeader ==
    /\ rev = "drawer"
    /\ DrawerInit(0, 0)
    /\ erev \in ElementRevisions
    /\ elem = [value |-> StrV(<<"a", "b", "c">>),
               height |-> 1, width |-> 1, style |-> "dict", comment |-> NoneS,
               col_width |-> FloatW(<<4, 1>>), padding |-> <<1, 1>>]
    /\ calls = <<>>
    /\ mat = <<>>
    /\ built = <<>>
    /\ comp = <<>>
    /\ op = Op("init", "none", <<>>)

NextHeader ==
    \/ \E a \in Anchors : HeaderDraw(a[1], a[2])
    \/ \E a \in HeaderArgs :
            HeaderNew(a.value, a.h, a.w, a.style, a.comment, a.col_width, a.padding)

SpecHeader == InitHeader /\ [][NextHeader]_vars

\* ------------------------------------------------------------------------
\* Matrix.  Its mapping is a function from the keys <<row, column>> to the
\* cells; a cell is a HeaderElement whose style is [k, d]: k is "dict" or
\* "format", d the style dict, a function from style keys to values.
\* The revision erev is elements.py, or elements/matrix.py over the
\* HeaderElement of elements/basic.py.

Max(S) == CHOOSE m \in S : \A n \in S : n <= m

\* Matrix._count_rows, Matrix._count_cols
CountRows(d) == Max({key[1] : key \in DOMAIN d}) + 1

CountCols(d) == Max({key[2] : key \in DOMAIN d}) + 1

\* Matrix.lists_to_matrix: the error it signals (max of no lengths, or
\* rows of different lengths), and the dict it returns
ListsErr(L) ==
    IF Len(L) = 0 \/ \E i \in 1..Len(L) : Len(L[i]) # Len(L[1]) THEN "ValueError" ELSE "none"

ListsDict(L) ==
    [key \in (0..(Len(L) - 1)) \X (0..(Len(L[1]) - 1)) |-> L[key[1] + 1][key[2] + 1]]

\* an argument of the constructor: a nested list, a dict, or one value
ListV(l) == [k |-> "list", l |-> l]

DictV(d) == [k |-> "dict", d |-> d]

\* the argument after the conversion of the lists
AsMatrix(arg) == IF arg.k = "list" THEN DictV(ListsDict(arg.l)) ELSE arg

\* height[(i, j)] if isinstance(height, dict) else height
ItemAt(arg, key) == IF arg.k = "dict" THEN arg.d[key] ELSE arg

\* Matrix._merge_styles: a copy of style with the keys of the overlay set

\* the overlay without effect on the keys the style has
MergeStyles_KeepsOld(style, additional_style) ==
    [key \in DOMAIN style \cup DOMAIN additional_style |->
        IF key \in DOMAIN style THEN style[key] ELSE additional_style[key]]

MergeStyles(style, additional_style) ==
    [key \in DOMAIN style \cup DOMAIN additional_style |->
        IF key \in DOMAIN additional_style THEN additional_style[key] ELSE style[key]]

\* Matrix.border: the keys of the border cells, in order
Border(nrow, ncol, which, corner1, corner2) ==
    IF which \in {"t", "b"}
    THEN LET n == IF which = "t" THEN 0 ELSE nrow - 1
             m0 == IF corner1 THEN 0 ELSE 1
             m1 == IF corner2 THEN ncol ELSE ncol - 1
         IN  [i \in 1..(m1 - m0) |-> <<n, m0 + i - 1>>]
    ELSE LET n0 == IF corner1 THEN 0 ELSE 1
             n1 == IF corner2 THEN nrow ELSE nrow - 1
             m == IF which = "l" THEN 0 ELSE ncol - 1
         IN  [i \in 1..(n1 - n0) |-> <<n0 + i - 1, m>>]

\* for elem in self.border(which): elem.style = self._merge_styles(...)
Overlaid(cells, keys, additional_style) ==
    [key \in DOMAIN cells |->
        IF \E i \in DOMAIN keys : keys[i] = key
        THEN [cells[key] EXCEPT !.style.d = MergeStyles(@, additional_style)]
        ELSE cells[key]]

\* Matrix.make_element_matrix: the error of the construction of the cell
\* at key, and the cells.  The padding handed to the cells is the default of
\* the constructor, 1.0 in elements.py and 3.0 in elements/matrix.py
CellErr(r, a, key) ==
    IF \E arg \in {AsMatrix(a.values), AsMatrix(a.height), AsMatrix(a.width)} :
            arg.k = "dict" /\ key \notin DOMAIN arg.d
    THEN "KeyError"
    ELSE HeaderNewErr(r, ItemAt(AsMatrix(a.height), key), ItemAt(AsMatrix(a.width), key),
                      a.col_width)

MatrixCells(r, a) ==
    LET values == AsMatrix(a.values).d
    IN  [key \in (0..(CountRows(values) - 1)) \X (0..(CountCols(values) - 1)) |->
            [value |-> ValueSet(r, values[key]),
             height |-> ItemAt(AsMatrix(a.height), key).v,
             width |-> ItemAt(AsMatrix(a.width), key).v,
             style |-> [k |-> "dict", d |-> a.style], comment |-> NoneS,
             col_width |-> a.col_width,
             padding |-> IF r = "elements" THEN <<1, 1>> ELSE <<3, 1>>]]

\* Matrix.__init__: the error it signals.  The lists are converted first,
\* then the cells are constructed row by row, then nrow * height and
\* ncol * width are assigned: a dict there is a TypeError
MatrixNewErr(r, a) ==
    IF \E arg \in {a.values, a.height, a.width} : arg.k = "list" /\ ListsErr(arg.l) # "none"
    THEN "ValueError"
    ELSE LET values == AsMatrix(a.values).d
             keys == (0..(CountRows(values) - 1)) \X (0..(CountCols(values) - 1))
             bad == {key \in keys : CellErr(r, a, key) # "none"}
             first == CHOOSE key \in bad : \A other \in bad :
                        key[1] < other[1] \/ (key[1] = other[1] /\ key[2] <= other[2])
         IN  IF bad # {} THEN CellErr(r, a, first)
             ELSE IF a.height.k # "int" \/ a.width.k # "int" THEN "TypeError"
             ELSE "none"

\* Matrix.__init__: the Matrix it leaves, with the overlays applied to the
\* borders in the order top, right, bottom, left
MatrixNewMat(r, a) ==
    LET cells == MatrixCells(r, a)
        n == CountRows(cells)
        m == CountCols(cells)
        t == Overlaid(cells, Border(n, m, "t", TRUE, TRUE), a.top)
        tr == Overlaid(t, Border(n, m, "r", TRUE, TRUE), a.right)
        trb == Overlaid(tr, Border(n, m, "b", TRUE, TRUE), a.bottom)
    IN  [matrix |-> Overlaid(trb, Border(n, m, "l", TRUE, TRUE), a.left),
         nrow |-> n, ncol |-> m, height |-> n * a.height.v, width |-> m * a.width.v]

\* Matrix(values, height, width, style, col_width, top, right, bottom, left):
\* a failed construction leaves no new Matrix
MatrixNew(a) ==
    LET err == MatrixNewErr(erev, a)
    IN  /\ mat' = IF err = "none" THEN MatrixNewMat(erev, a) ELSE mat
        /\ built' = IF err = "none" THEN a ELSE built
        /\ calls' = IF err = "none" THEN <<>> ELSE calls
        /\ op' = Op("matrix_new", err, <<>>)
        /\ UNCHANGED <<dvars, erev, elem, comp>>

\* matrix.matrix = value: the mapping is assigned before the rows and the
\* columns are counted, and max() of no keys is a ValueError
MatrixSetMatrix_KeepsCounts(value) ==
    /\ mat' = IF value.k = "dict" THEN [mat EXCEPT !.matrix = value.d] ELSE mat
    /\ op' = Op("set_matrix", IF value.k = "dict" THEN "none" ELSE "TypeError", <<>>)
    /\ UNCHANGED <<dvars, erev, elem, calls, built, comp>>

MatrixSetMatrix(value) ==
    LET err == IF value.k # "dict" THEN "TypeError"
               ELSE IF DOMAIN value.d = {} THEN "ValueError"
               ELSE "none"
    IN  /\ mat' = IF err = "TypeError" THEN mat
                  ELSE IF err = "ValueError" THEN [mat EXCEPT !.matrix = value.d]
                  ELSE [mat EXCEPT !.matrix = value.d,
                                   !.nrow = CountRows(value.d), !.ncol = CountCols(value.d)]
        /\ op' = Op("set_matrix", err, <<>>)
        /\ UNCHANGED <<dvars, erev, elem, calls, built, comp>>

\* Matrix.get: the error it signals; the lookup of a key the mapping lacks
\* is a KeyError
MatrixGet(xa, ya) ==
    LET err == IF xa.k # "int" \/ ya.k # "int" THEN "TypeError"
               ELSE IF xa.v < 0 \/ xa.v > mat.nrow - 1 \/ ya.v < 0 \/ ya.v > mat.ncol - 1
               THEN "IndexError"
               ELSE IF <<xa.v, ya.v>> \notin DOMAIN mat.matrix THEN "KeyError"
               ELSE "none"
    IN  /\ op' = Op("matrix_get", err, IF err = "none" THEN <<mat.matrix[<<xa.v, ya.v>>]>> ELSE <<>>)
        /\ UNCHANGED <<dvars, evars>>

\* Matrix.set: issubclass(value, Element) raises TypeError for a value that
\* is not a class, and so for every Element and every other object
MatrixSet(xa, ya, value) ==
    /\ value \in {"element", "other"}
    /\ op' = Op("matrix_set", "TypeError", <<>>)
    /\ UNCHANGED <<dvars, evars>>

\* Matrix.corner: vals, by revision
CornerVals(r) ==
    IF r = "elements"
    THEN <<"topright", "bottomright", "bottomleft", "topleft">>
    ELSE <<"topleft", "topright", "bottomright", "bottomleft">>

\* which is a name [k |-> "str"], an ordinal or another number
CornerName(name) == [k |-> "str", v |-> 0, name |-> name]

CornerKey(m, name) ==
    IF name = "topleft" THEN <<0, 0>>
    ELSE IF name = "topright" THEN <<0, m.ncol - 1>>
    ELSE IF name = "bottomright" THEN <<m.nrow - 1, m.ncol - 1>>
    ELSE <<m.nrow - 1, 0>>

\* Matrix.corner: the error it signals and the cell it returns
MatrixCornerRes(r, m, which) ==
    LET name == IF which.k = "str" THEN which.name ELSE CornerVals(r)[which.v]
    IN  IF which.k \notin {"str", "int"} THEN [err |-> "TypeError", out |-> <<>>]
        ELSE IF which.k = "int" /\ which.v \notin DOMAIN CornerVals(r)
        THEN [err |-> "KeyError", out |-> <<>>]
        ELSE IF name \notin {"topleft", "topright", "bottomright", "bottomleft"}
        THEN [err |-> "ValueError", out |-> <<>>]
        ELSE IF CornerKey(m, name) \notin DOMAIN m.matrix
        THEN [err |-> "KeyError", out |-> <<>>]
        ELSE [err |-> "none", out |-> <<m.matrix[CornerKey(m, name)]>>]

MatrixCorner(which) ==
    /\ op' = Op("matrix_corner", MatrixCornerRes(erev, mat, which).err,
                MatrixCornerRes(erev, mat, which).out)
    /\ UNCHANGED <<dvars, evars>>

\* the cell as the Element that HeaderElement.draw works on
CellElem(c) == [c EXCEPT !.style = c.style.k]

\* the inner loop of Matrix.draw from column j of row i.  st is the state of
\* the loops: the cursor x, y, the height of the row so far, the height of
\* the cell drawn last, the calls made, the keys of the cells drawn and the
\* error.  elements.py advances y by the width of the cell,
\* elements/matrix.py advances x
RECURSIVE DrawCols(_, _, _, _, _)
DrawCols(r, m, i, j, st) ==
    IF j = m.ncol \/ st.err # "none" THEN st
    ELSE IF <<i, j>> \notin DOMAIN m.matrix THEN [st EXCEPT !.err = "KeyError"]
    ELSE LET e == m.matrix[<<i, j>>]
         IN  DrawCols(r, m, i, j + 1,
                [x |-> IF r = "elements" THEN st.x ELSE st.x + e.width,
                 y |-> IF r = "elements" THEN st.y + e.width ELSE st.y,
                 height |-> IF e.height > st.height THEN e.height ELSE st.height,
                 last |-> e.height,
                 calls |-> st.calls \o HeaderDrawCalls(r, CellElem(e), st.x, st.y),
                 done |-> st.done \cup {<<i, j>>},
                 err |-> "none"])

\* the outer loop of Matrix.draw from row i, anchored at (x0, y0).  After a
\* row elements.py adds the height of the row to x; elements/matrix.py adds
\* the height of the last cell of the row to y
RECURSIVE DrawRows(_, _, _, _, _, _)
DrawRows(r, m, i, x0, y0, st) ==
    IF i = m.nrow \/ st.err # "none" THEN st
    ELSE LET row == DrawCols(r, m, i, 0, [st EXCEPT !.height = 1])
         IN  DrawRows(r, m, i + 1, x0, y0,
                IF row.err # "none" THEN row
                ELSE IF r = "elements"
                THEN [row EXCEPT !.y = y0, !.x = row.x + row.height]
                ELSE [row EXCEPT !.x = x0, !.y = row.y + row.last])

\* Matrix.draw: the cells drawn have their styles resolved
MatrixDraw(xa, ya) ==
    LET res == DrawRows(erev, mat, 0, xa, ya,
                        [x |-> xa, y |-> ya, height |-> 1, last |-> 1, calls |-> <<>>,
                         done |-> {}, err |-> "none"])
    IN  /\ calls' = res.calls
        /\ mat' = [mat EXCEPT !.matrix =
                    [key \in DOMAIN mat.matrix |->
                        IF key \in res.done
                        THEN [mat.matrix[key] EXCEPT !.style.k = "format"]
                        ELSE mat.matrix[key]]]
        /\ op' = Op("matrix_draw", res.err, <<>>)
        /\ UNCHANGED <<dvars, erev, elem, built, comp>>

\* a nested list of n rows of m values: one letter for every position
ValuesList(n, m) ==
    LET letters == <<"A", "B", "C", "D", "E", "F", "G", "H", "I", "J", "K", "L", "M",
                     "N", "O", "P", "Q", "R", "S", "T", "U", "V", "W", "X", "Y">>
    IN  [i \in 1..n |-> [j \in 1..m |-> StrV(<<letters[(i - 1) * m + j]>>)]]

\* a nested list of n rows of m extents: 2 in the first column, 1 elsewhere
ExtentsList(n, m) == [i \in 1..n |-> [j \in 1..m |-> IntV(IF j = 1 THEN 2 ELSE 1)]]

\* the style dicts: style of the cells, and the overlays top, right,
\* bottom, left, which all set the key c
StyleDicts(on) ==
    IF on
    THEN [style |-> [c |-> "s", s |-> "s"], top |-> [c |-> "t", t |-> "t"],
          right |-> [c |-> "r", r |-> "r"], bottom |-> [c |-> "b", b |-> "b"],
          left |-> [c |-> "l", l |-> "l"]]
    ELSE [style |-> <<>>, top |-> <<>>, right |-> <<>>, bottom |-> <<>>, left |-> <<>>]

\* the arguments of one construction
MatrixArg(values, h, w, col_width, on) ==
    [values |-> values, height |-> h, width |-> w, col_width |-> col_width,
     style |-> StyleDicts(on).style, top |-> StyleDicts(on).top,
     right |-> StyleDicts(on).right, bottom |-> StyleDicts(on).bottom,
     left |-> StyleDicts(on).left]

\* the constructions: every shape of single cells with and without column
\* width and overlays; 2 x 2 values as a dict and with every uniform
\* extent; extents per position, as a list and as a dict; invalid extents;
\* rows of different lengths
MatrixArgs ==
    {MatrixArg(ListV(ValuesList(n, m)), IntV(1), IntV(1), c, on) :
        n \in 1..MaxSide, m \in 1..MaxSide, c \in {NoneW, FloatW(<<4, 1>>)}, on \in BOOLEAN}
    \cup {MatrixArg(DictV(ListsDict(ValuesList(2, 2))), IntV(h), IntV(w), FloatW(<<4, 1>>), FALSE) :
        h \in 1..MaxDim, w \in 1..MaxDim}
    \cup {MatrixArg(ListV(ValuesList(2, 2)), h, IntV(1), FloatW(<<4, 1>>), FALSE) :
        h \in {ListV(ExtentsList(2, 2)), IntV(0), FloatV(1)}}
    \cup {MatrixArg(ListV(ValuesList(2, 2)), IntV(1), DictV(ListsDict(ExtentsList(2, 2))),
                    FloatW(<<4, 1>>), FALSE),
          MatrixArg(ListV(<<ValuesList(1, 2)[1], ValuesList(1, 1)[1]>>), IntV(1), IntV(1),
                    FloatW(<<4, 1>>), FALSE)}

\* a HeaderElement made by the caller, of height h
MadeCell(v, h) ==
    [value |-> StrV(<<v>>), height |-> h, width |-> 1, style |-> [k |-> "dict", d |-> <<>>],
     comment |-> NoneS, col_width |-> FloatW(<<4, 1>>), padding |-> <<1, 1>>]

\* the values assigned to the mapping: a dict with two keys and holes
\* between them, a 2 x 2 dict whose first cell is higher than the others,
\* the empty dict, and a list
Mappings ==
    {DictV(<<0, 0>> :> MadeCell("A", 1) @@ <<1, 2>> :> MadeCell("B", 1)),
     DictV(<<0, 0>> :> MadeCell("A", 2) @@ <<0, 1>> :> MadeCell("B", 1)
           @@ <<1, 0>> :> MadeCell("C", 1) @@ <<1, 1>> :> MadeCell("D", 1)),
     DictV(<<>>),
     ListV(<<>>)}

\* the indices handed to get and set: every pair of indices below
\* MaxSide, and an index that is negative, too large or not an int beside 0
IndexPairs ==
    LET bad == {IntV(-1), IntV(MaxSide), FloatV(0)}
    IN  {<<IntV(i), IntV(j)>> : i \in 0..(MaxSide - 1), j \in 0..(MaxSide - 1)}
        \cup {<<b, IntV(0)>> : b \in bad} \cup {<<IntV(0), b>> : b \in bad}

Corners ==
    {IntV(n) : n \in 1..5}
    \cup {CornerName(n) : n \in {"topleft", "topright", "bottomright", "bottomleft", "middle"}}
    \cup {FloatV(1)}

\* a Matrix of either revision, constructed with any of the arguments
InitMatrixAny ==
    /\ rev = "drawer"
    /\ DrawerInit(0, 0)
    /\ erev \in ElementRevisions
    /\ ElementInit(StrV(<<>>), 1, 1, "dict", NoneS)
    /\ calls = <<>>
    /\ built \in {a \in MatrixArgs : MatrixNewErr(erev, a) = "none"}
    /\ mat = MatrixNewMat(erev, built)
    /\ comp = <<>>
    /\ op = Op("init", "none", <<>>)

\* constructions and assignments of the mapping
NextMatrix ==
    \/ \E a \in MatrixArgs : MatrixNew(a)
    \/ \E value \in Mappings : MatrixSetMatrix(value)

SpecMatrix == InitMatrixAny /\ [][NextMatrix]_vars

\* the accessors of one Matrix, between assignments of its mapping
NextMatrixRead ==
    \/ \E value \in Mappings : MatrixSetMatrix(value)
    \/ \E p \in IndexPairs : MatrixGet(p[1], p[2])
    \/ \E p \in {q \in IndexPairs : q[2] = IntV(0) /\ q[1] \notin {IntV(i) : i \in 1..MaxSide - 1}},
          value \in {"element", "other"} : MatrixSet(p[1], p[2], value)
    \/ \E which \in Corners : MatrixCorner(which)

SpecMatrixRead == InitMatrixAny /\ [][NextMatrixRead]_vars

\* the draws of one Matrix, between assignments of its mapping
NextMatrixDraw ==
    \/ \E value \in Mappings : MatrixSetMatrix(value)
    \/ \E a \in Anchors : MatrixDraw(a[1], a[2])

SpecMatrixDraw == InitMatrixAny /\ [][NextMatrixDraw]_vars

\* ------------------------------------------------------------------------
\* LineElement (elements.py; the earlier revision is elements/complex.py,
\* whose components are the Elements of elements/basic.py)

BoolV(b) == [k |-> "bool", v |-> b]

\* sum([...])
RECURSIVE SumSeq(_)
SumSeq(s) == IF s = <<>> THEN 0 ELSE s[1] + SumSeq(Tail(s))

\* the end of LineElement.__init__ where sum and max are exchanged
LineExtent_Swapped(elements, vertical) ==
    LET hs == [i \in 1..Len(elements) |-> elements[i].height]
        ws == [i \in 1..Len(elements) |-> elements[i].width]
    IN  IF vertical
        THEN [height |-> Max({hs[i] : i \in 1..Len(hs)}), width |-> SumSeq(ws)]
        ELSE [height |-> SumSeq(hs), width |-> Max({ws[i] : i \in 1..Len(ws)})]

\* the end of LineElement.__init__: the height and the width of a line of
\* at least one component
LineExtent(elements, vertical) ==
    LET hs == [i \in 1..Len(elements) |-> elements[i].height]
        ws == [i \in 1..Len(elements) |-> elements[i].width]
    IN  IF vertical
        THEN [height |-> SumSeq(hs), width |-> Max({ws[i] : i \in 1..Len(ws)})]
        ELSE [height |-> Max({hs[i] : i \in 1..Len(hs)}), width |-> SumSeq(ws)]

\* LineElement.__init__: the error it signals.  Of no components the sum
\* is 0, which the height setter refuses with TypeError (vertical), and
\* max raises ValueError (horizontal)
LineNewErr(elements, vertical) ==
    IF elements.k # "list" THEN "TypeError"
    ELSE IF vertical.k # "bool" THEN "TypeError"
    ELSE IF elements.l = <<>> THEN (IF vertical.v THEN "TypeError" ELSE "ValueError")
    ELSE "none"

\* the LineElement a construction without error makes
LineNewLine(elements, vertical) ==
    [elements |-> elements.l, vertical |-> vertical.v,
     height |-> LineExtent(elements.l, vertical.v).height,
     width |-> LineExtent(elements.l, vertical.v).width]

\* LineElement(elements, vertical): a failed construction leaves no new line
LineNew(elements, vertical) ==
    LET err == LineNewErr(elements, vertical)
    IN  /\ comp' = IF err = "none" THEN LineNewLine(elements, vertical) ELSE comp
        /\ calls' = IF err = "none" THEN <<>> ELSE calls
        /\ op' = Op("line_new", err, <<>>)
        /\ UNCHANGED <<dvars, erev, elem, mat, built>>

\* the loop of LineElement.draw from component k on, the cursor at (xa, ya).
\* A vertical line adds the height of the component to x in elements.py and
\* to y in elements/complex.py; a horizontal line adds the width to y in
\* elements.py and to x in elements/complex.py
\* the loop that adds the extent across the line instead of the one along it
RECURSIVE LineDrawCalls_CrossStep(_, _, _, _, _)
LineDrawCalls_CrossStep(r, l, k, xa, ya) ==
    IF k > Len(l.elements) THEN <<>>
    ELSE LET e == l.elements[k]
             step == IF l.vertical THEN e.width ELSE e.height
             onx == (r = "elements") = l.vertical
         IN  ElementDrawCalls(r, e, xa, ya)
             \o LineDrawCalls_CrossStep(r, l, k + 1, IF onx THEN xa + step ELSE xa,
                                        IF onx THEN ya ELSE ya + step)

RECURSIVE LineDrawCalls(_, _, _, _, _)
LineDrawCalls(r, l, k, xa, ya) ==
    IF k > Len(l.elements) THEN <<>>
    ELSE LET e == l.elements[k]
             step == IF l.vertical THEN e.height ELSE e.width
             onx == (r = "elements") = l.vertical
         IN  ElementDrawCalls(r, e, xa, ya)
             \o LineDrawCalls(r, l, k + 1, IF onx THEN xa + step ELSE xa,
                              IF onx THEN ya ELSE ya + step)

\* a line after its draw: the styles of its components are resolved
LineDrawn(l) ==
    [l EXCEPT !.elements = [i \in 1..Len(l.elements) |-> [l.elements[i] EXCEPT !.style = "format"]]]

LineDraw(xa, ya) ==
    /\ calls' = LineDrawCalls(erev, comp, 1, xa, ya)
    /\ comp' = LineDrawn(comp)
    /\ op' = Op("line_draw", "none", <<>>)
    /\ UNCHANGED <<dvars, erev, elem, mat, built>>

\* the lists of components: up to MaxSide Elements of the extents in Shapes,
\* the k-th with the k-th letter as its value
Lines ==
    LET letters == <<"A", "B", "C", "D", "E", "F", "G", "H">>
        made(k, sh) == [value |-> StrV(<<letters[k]>>), height |-> sh[1], width |-> sh[2],
                        style |-> "dict", comment |-> NoneS]
    IN  UNION {{[k \in 1..n |-> made(k, f[k])] : f \in [1..n -> Shapes]} : n \in 0..MaxSide}

\* a horizontal line of one component, of either revision
InitLine ==
    /\ rev = "drawer"
    /\ DrawerInit(0, 0)
    /\ erev \in ElementRevisions
    /\ ElementInit(StrV(<<>>), 1, 1, "dict", NoneS)
    /\ calls = <<>>
    /\ mat = <<>>
    /\ built = <<>>
    /\ comp \in {LineNewLine(ListV(l), BoolV(FALSE)) : l \in {m \in Lines : Len(m) = 1}}
    /\ op = Op("init", "none", <<>>)

NextLine ==
    \/ \E l \in Lines, v \in BOOLEAN : LineNew(ListV(l), BoolV(v))
    \/ \E v \in {BoolV(TRUE), NoneV} : LineNew(DictV(<<>>), v)
    \/ \E l \in Lines : Len(l) = 1 /\ LineNew(ListV(l), NoneV)
    \/ \E a \in Anchors : LineDraw(a[1], a[2])

SpecLine == InitLine /\ [][NextLine]_vars

\* ------------------------------------------------------------------------
\* TreeElement (elements.py; the earlier revision is elements/complex.py).
\* An Element is told from a LineElement by its attribute value.

\* the constructor without the comparison of the widths
TreeNewErr_AnyWidth(r, parent, children) ==
    IF r = "elements" /\ "value" \notin DOMAIN parent THEN "TypeError" ELSE "none"

\* TreeElement.__init__: the error it signals.  The widths are compared
\* first; the parent setter of elements.py wants an Element, the one of
\* elements/complex.py takes anything
TreeNewErr(r, parent, children) ==
    IF parent.width # children.width THEN "ValueError"
    ELSE IF r = "elements" /\ "value" \notin DOMAIN parent THEN "TypeError"
    ELSE "none"

\* the TreeElement a construction without error makes
TreeNewTree(parent, children) ==
    [parent |-> parent, children |-> children,
     height |-> parent.height + children.height, width |-> parent.width]

\* TreeElement(parent, children): a failed construction leaves no new tree
TreeNew(parent, children) ==
    LET err == TreeNewErr(erev, parent, children)
    IN  /\ comp' = IF err = "none" THEN TreeNewTree(parent, children) ELSE comp
        /\ calls' = IF err = "none" THEN <<>> ELSE calls
        /\ op' = Op("tree_new", err, <<>>)
        /\ UNCHANGED <<dvars, erev, elem, mat, built>>

\* the draw of the children above the parent's last row
TreeDrawCalls_Overlaps(r, t, xa, ya) ==
    (IF "value" \in DOMAIN t.parent THEN ElementDrawCalls(r, t.parent, xa, ya)
     ELSE LineDrawCalls(r, t.parent, 1, xa, ya))
    \o (IF r = "elements" THEN LineDrawCalls(r, t.children, 1, xa + t.parent.height - 1, ya)
        ELSE LineDrawCalls(r, t.children, 1, xa, ya + t.parent.height - 1))

\* TreeElement.draw: the parent, then the children; elements.py adds the
\* height of the parent to x, elements/complex.py to y
TreeDrawCalls(r, t, xa, ya) ==
    (IF "value" \in DOMAIN t.parent THEN ElementDrawCalls(r, t.parent, xa, ya)
     ELSE LineDrawCalls(r, t.parent, 1, xa, ya))
    \o (IF r = "elements" THEN LineDrawCalls(r, t.children, 1, xa + t.parent.height, ya)
        ELSE LineDrawCalls(r, t.children, 1, xa, ya + t.parent.height))

TreeDraw(xa, ya) ==
    /\ calls' = TreeDrawCalls(erev, comp, xa, ya)
    /\ comp' = [comp EXCEPT !.parent = IF "value" \in DOMAIN @ THEN [@ EXCEPT !.style = "format"]
                                       ELSE LineDrawn(@),
                            !.children = LineDrawn(@)]
    /\ op' = Op("tree_draw", "none", <<>>)
    /\ UNCHANGED <<dvars, erev, elem, mat, built>>

\* the parents: an Element of every extent in Shapes, and a LineElement
TreeParents ==
    {[value |-> StrV(<<"P">>), height |-> sh[1], width |-> sh[2], style |-> "dict",
      comment |-> NoneS] : sh \in Shapes}
    \cup {LineNewLine(ListV(l), BoolV(FALSE)) : l \in {m \in Lines : Len(m) = 1 /\ m[1].height = 1}}

\* the children: the lines of up to MaxDim components, of both orientations
TreeChildren ==
    {LineNewLine(ListV(l), BoolV(v)) : l \in {m \in Lines : Len(m) \in 1..MaxDim}, v \in BOOLEAN}

\* a tree of an Element above a line of its width, of either revision
InitTree ==
    /\ rev = "drawer"
    /\ DrawerInit(0, 0)
    /\ erev \in ElementRevisions
    /\ ElementInit(StrV(<<>>), 1, 1, "dict", NoneS)
    /\ calls = <<>>
    /\ mat = <<>>
    /\ built = <<>>
    /\ comp \in {TreeNewTree(p, c) : p \in {q \in TreeParents : "value" \in DOMAIN q},
                                     c \in {d \in TreeChildren : Len(d.elements) = 1}}
    /\ comp.parent.width = comp.children.width
    /\ op = Op("init", "none", <<>>)

NextTree ==
    \/ \E p \in TreeParents, c \in TreeChildren : TreeNew(p, c)
    \/ \E a \in Anchors : TreeDraw(a[1], a[2])

SpecTree == InitTree /\ [][NextTree]_vars

\* ------------------------------------------------------------------------
\* Dictionary (elements.py).  structure is the sequence of its fields in
\* insertion order, a field the record of its key, of data['content'] (a
\* list of values or one value) and of data.get('vspace') (None when the
\* key is absent); field_params and content_params are the pairs
\* <<height, width>> they hold.  No text has a replacement field, so that
\* interpolate_string returns it as it is.

\* the loop of Dictionary.__init__: the height and the width it computes
DictExtent(structure, vspace, field_params, content_params) ==
    LET n(f) == IF f.content.k = "list" THEN Len(f.content.l) ELSE 1
        ch(f) == n(f) * content_params[1]
        w == field_params[2] + content_params[2] + vspace
    IN  [height |-> SumSeq([k \in 1..Len(structure) |->
                                IF field_params[1] > ch(structure[k]) THEN field_params[1]
                                ELSE ch(structure[k])]),
         width |-> IF structure # <<>> /\ w > 0 THEN w ELSE 0]

\* Dictionary.__init__: the error it signals; the setters of hspace and
\* vspace want ints, the ones of height and width positive ints
DictNewErr(a) ==
    IF a.hspace.k # "int" \/ a.vspace.k # "int" THEN "TypeError"
    ELSE LET e == DictExtent(a.structure, a.vspace.v, a.field_params, a.content_params)
         IN  IF e.height < 1 \/ e.width < 1 THEN "ValueError" ELSE "none"

\* the Dictionary a construction without error makes
DictNewDict(a) ==
    LET e == DictExtent(a.structure, a.vspace.v, a.field_params, a.content_params)
    IN  [structure |-> a.structure, hspace |-> a.hspace.v, vspace |-> a.vspace.v,
         field_params |-> a.field_params, content_params |-> a.content_params,
         height |-> e.height, width |-> e.width]

\* Dictionary(structure, hspace, vspace, field_params, content_params): a
\* failed construction leaves no new Dictionary
DictNew(a) ==
    LET err == DictNewErr(a)
    IN  /\ comp' = IF err = "none" THEN DictNewDict(a) ELSE comp
        /\ calls' = IF err = "none" THEN <<>> ELSE calls
        /\ op' = Op("dict_new", err, <<>>)
        /\ UNCHANGED <<dvars, erev, elem, mat, built>>

\* the inner loop of Dictionary.draw from value i on: a HeaderElement with
\* col_width None for every value, drawn Field.width + hspace columns to
\* the right, and x moved on by its height
RECURSIVE DictContentCalls(_, _, _, _, _)
DictContentCalls(d, vals, i, xa, ya) ==
    IF i > Len(vals) THEN <<>>
    ELSE LET Content == [value |-> ValueSet("elements", vals[i]),
                         height |-> d.content_params[1], width |-> d.content_params[2],
                         style |-> "dict", comment |-> NoneS,
                         col_width |-> NoneW, padding |-> <<1, 1>>]
         IN  HeaderDrawCalls("elements", Content, xa, ya + d.field_params[2] + d.hspace)
             \o DictContentCalls(d, vals, i + 1, xa + Content.height, ya)

\* the outer loop of Dictionary.draw from field k on: the key as a
\* HeaderElement at the cursor, the values beside it, and x moved on by
\* the heights of the values and the vspace of the field
RECURSIVE DictDrawCalls(_, _, _, _)
DictDrawCalls(d, k, xa, ya) ==
    IF k > Len(d.structure) THEN <<>>
    ELSE LET data == d.structure[k]
             Field == [value |-> data.field, height |-> d.field_params[1],
                       width |-> d.field_params[2], style |-> "dict", comment |-> NoneS,
                       col_width |-> AutoW, padding |-> <<1, 1>>]
             content == IF data.content.k = "list" THEN data.content.l ELSE <<data.content>>
             vspace == IF data.vspace.k = "none" THEN d.vspace ELSE data.vspace.v
         IN  HeaderDrawCalls("elements", Field, xa, ya)
             \o DictContentCalls(d, content, 1, xa, ya)
             \o DictDrawCalls(d, k + 1, xa + Len(content) * d.content_params[1] + vspace, ya)

\* Dictionary.draw: the elements it draws are made anew at every call
DictDraw(xa, ya) ==
    /\ calls' = DictDrawCalls(comp, 1, xa, ya)
    /\ op' = Op("dict_draw", "none", <<>>)
    /\ UNCHANGED <<dvars, erev, elem, mat, built, comp>>

\* the constructions: up to two fields, each with one value that is not in
\* a list or with a list of MaxDim values and a vspace of its own; hspace
\* and vspace up to MaxStep; keys and values of one cell or of MaxDim rows
\* and columns; and an hspace that is no int
DictArgs ==
    LET one(k) == [field |-> StrV(<<k>>), content |-> StrV(<<"v">>), vspace |-> NoneV]
        many(k) == [field |-> StrV(<<k>>), content |-> ListV([i \in 1..MaxDim |-> StrV(<<"w">>)]),
                    vspace |-> IntV(MaxStep)]
        structures == {<<>>} \cup {<<f>> : f \in {one("k"), many("k")}}
                        \cup {<<f, g>> : f \in {one("k"), many("k")}, g \in {one("l"), many("l")}}
        params == {<<1, 1>>, <<MaxDim, MaxDim>>}
    IN  {[structure |-> st, hspace |-> IntV(hs), vspace |-> IntV(vs),
          field_params |-> fp, content_params |-> cp] :
            st \in structures, hs \in 0..MaxStep, vs \in 0..MaxStep,
            fp \in params, cp \in params}
        \cup {[structure |-> <<one("k")>>, hspace |-> FloatV(1), vspace |-> IntV(0),
               field_params |-> <<1, 1>>, content_params |-> <<1, 1>>]}

\* a Dictionary of one field with the default hspace 1 and vspace 0
InitDictionary ==
    /\ rev = "drawer"
    /\ DrawerInit(0, 0)
    /\ erev = "elements"
    /\ ElementInit(StrV(<<>>), 1, 1, "dict", NoneS)
    /\ calls = <<>>
    /\ mat = <<>>
    /\ built = <<>>
    /\ comp \in {DictNewDict(a) : a \in {b \in DictArgs :
                    Len(b.structure) = 1 /\ b.hspace = IntV(1) /\ b.vspace = IntV(0)}}
    /\ op = Op("init", "none", <<>>)

NextDictionary ==
    \/ \E a \in DictArgs : DictNew(a)
    \/ \E a \in Anchors : DictDraw(a[1], a[2])

SpecDictionary == InitDictionary /\ [][NextDictionary]_vars


\* ------------------------------------------------------------------------
\* Claims about the Drawer

\* C1: a successful move from (x0, y0) directly followed by fallback(1)
\* completes without error and leaves the cursor at (x0, y0).
C1_MoveThenFallbackRestores ==
    [][(op'.name = "move" /\ op'.err = "none") =>
        \A r \in FallbackRes(1)' : r.err = "none" /\ r.x = x /\ r.y = y]_vars

\* C2: reset(name) leaves the cursor at the position it had when
\* add_checkpoint(name) was last called, whatever was called in between.
C2_ResetRestoresCheckpoint ==
    [][op'.name = "reset" =>
        \A n \in CpNames :
            (Reset(CpName(n), IntV(0), IntV(0), FALSE, TRUE, TRUE) /\ saved[n] # <<>>)
                => (op'.err = "none" /\ <<x', y'>> = saved[n])]_vars

\* add_checkpoint("a"), a call that takes the cursor elsewhere, and a reset
\* that brings it back
C2_Witness ==
    /\ op.name = "reset"
    /\ op.err = "none"
    /\ Len(prev_x) = 2
    /\ <<x, y>> = saved["a"]
    /\ <<prev_x[1], prev_y[1]>> = saved["a"]
    /\ <<prev_x[2], prev_y[2]>> # saved["a"]

\* C3: both coordinates are integers >= 0 in every state; an assignment of a
\* negative value to a coordinate signals ValueError, of a non-integer
\* TypeError, and leaves the coordinate as it was.
C3_Rejected(v) == v.k # "int" \/ v.v < 0

C3_Signal(v) == IF v.k # "int" THEN "TypeError" ELSE "ValueError"

\* r is what a call ends with that assigns vx to x (when onx) and then vy
\* to y (when ony)
C3_Assignments(r, vx, onx, vy, ony) ==
    /\ (onx /\ C3_Rejected(vx)) => (r.err = C3_Signal(vx) /\ r.x = x /\ r.y = y)
    /\ (~(onx /\ C3_Rejected(vx)) /\ ony /\ C3_Rejected(vy))
            => (r.err = C3_Signal(vy) /\ r.y = y)

\* the calls of reset with explicit coordinates
C3_Resets == {a \in ResetArgs : a.cp = CpNone /\ ~a.kw}

C3_CoordinatesNonNegative ==
    /\ x \in Nat
    /\ y \in Nat
    /\ \A a \in MoveArgs :
        C3_Assignments(MoveRes(a.dx, a.dy, a.back),
                       IF a.back THEN PySub(IntV(x), a.dx) ELSE PyAdd(IntV(x), a.dx), TRUE,
                       IF a.back THEN PySub(IntV(y), a.dy) ELSE PyAdd(IntV(y), a.dy), TRUE)
    /\ \A a \in C3_Resets :
        \A r \in ResetRes(a.cp, a.xa, a.ya, a.kw, a.cx, a.cy) :
            C3_Assignments(r, a.xa, rev = "pyxldrawer" \/ a.xa # NoneV,
                           a.ya, rev = "pyxldrawer" \/ a.ya # NoneV)

\* a move back that takes x one row up and is then refused on y
C3_Witness ==
    /\ op.name = "move"
    /\ op.err = "ValueError"
    /\ Len(prev_x) > 0
    /\ x = prev_x[Len(prev_x)] - 1
    /\ y = 0
    /\ prev_y[Len(prev_y)] = 0

\* C4: a successful move(dx, dy, back) appends exactly the old position to the
\* history, adds (dx, dy) to the position, or subtracts it when back is set,
\* and leaves checkpoints and the last extent alone.
C4_MoveEffect ==
    [][(op'.name = "move" /\ op'.err = "none") =>
        \A a \in MoveArgs :
            Move(a.dx, a.dy, a.back) =>
                /\ prev_x' = Append(prev_x, x)
                /\ prev_y' = Append(prev_y, y)
                /\ x' = IF a.back THEN x - a.dx.v ELSE x + a.dx.v
                /\ y' = IF a.back THEN y - a.dy.v ELSE y + a.dy.v
                /\ UNCHANGED <<checkpoints, height, width>>]_vars

\* a second call that is a move back along one axis
C4_Witness ==
    /\ op.name = "move"
    /\ op.err = "none"
    /\ Len(prev_x) >= 2
    /\ Len(checkpoints) > 0
    /\ x + y < prev_x[Len(prev_x)] + prev_y[Len(prev_y)]

\* C5: with k entries of history and 1 <= n <= k, fallback(n) sets both
\* coordinates to the n-th entry from the end of the history.
C5_FallbackRestoresNth ==
    [][op'.name = "fallback" =>
        \A n \in 1..Len(prev_x) :
            Fallback(n) => /\ x' = prev_x[Len(prev_x) - n + 1]
                           /\ y' = prev_y[Len(prev_y) - n + 1]]_vars

\* C6: reset(i) with an integer i in range sets the position to the one saved
\* by the i-th checkpoint added, counting from 0 in insertion order.
C6_ResetByIndex ==
    [][op'.name = "reset" =>
        \A i \in 0..(Len(checkpoints) - 1) :
            Reset(CpIdx(i), IntV(0), IntV(0), FALSE, TRUE, TRUE)
                => <<x', y'>> = checkpoints[i + 1].pos]_vars

\* C7: reset appends the old position to the history and, with one axis
\* toggled off, keeps that coordinate and sets the other one from the
\* checkpoint or from the explicit argument.
C7_OnX(a) == IF rev = "drawer" THEN a.xa # NoneV ELSE a.cx

C7_OnY(a) == IF rev = "drawer" THEN a.ya # NoneV ELSE a.cy

\* the position the call names, <<>> when it names none
C7_Source(a) ==
    IF a.cp.k = "str" THEN saved[a.cp.name]
    ELSE IF a.cp.k = "int"
         THEN IF a.cp.i < Len(checkpoints) THEN checkpoints[a.cp.i + 1].pos ELSE <<>>
    ELSE IF C3_Rejected(a.xa) \/ C3_Rejected(a.ya) THEN <<>>
    ELSE <<a.xa.v, a.ya.v>>

C7_ResetPerAxis ==
    [][op'.name = "reset" =>
        \A a \in ResetArgs :
            ((rev = "drawer" => ~a.kw) /\ Reset(a.cp, a.xa, a.ya, a.kw, a.cx, a.cy)) =>
                /\ prev_x' = Append(prev_x, x)
                /\ prev_y' = Append(prev_y, y)
                /\ (~C7_OnX(a) /\ C7_OnY(a) /\ C7_Source(a) # <<>>)
                        => (x' = x /\ y' = C7_Source(a)[2])
                /\ (C7_OnX(a) /\ ~C7_OnY(a) /\ C7_Source(a) # <<>>)
                        => (y' = y /\ x' = C7_Source(a)[1])]_vars

\* C8: draw hands the current position to the component, records the
\* component's height and width, and changes neither the position nor the
\* history nor the checkpoints.
C8_DrawEffect ==
    [][op'.name = "draw" =>
        \A s \in Shapes :
            Draw(s[1], s[2]) =>
                /\ op'.out = <<x, y>>
                /\ height' = s[1]
                /\ width' = s[2]
                /\ UNCHANGED <<x, y, prev_x, prev_y, checkpoints>>]_vars

\* a draw away from the origin, with history and checkpoints to keep
C8_Witness ==
    /\ op.name = "draw"
    /\ op.out = <<x, y>>
    /\ x + y > 0
    /\ height # width
    /\ Len(prev_x) > 0
    /\ Len(checkpoints) > 0

\* C9: x being the row and y the column, after a draw move_vertical() adds
\* the drawn height to x and leaves y, move_horizontal() adds the drawn width
\* to y and leaves x; both subtract when back is set.
C9_MoveAlongAxis ==
    [][(height # 0 /\ op'.err = "none") =>
        \A back \in BOOLEAN :
            /\ (op'.name = "move_vertical" /\ MoveVertical(NoneV, back))
                    => (x' = (IF back THEN x - height ELSE x + height) /\ y' = y)
            /\ (op'.name = "move_horizontal" /\ MoveHorizontal(NoneV, back))
                    => (y' = (IF back THEN y - width ELSE y + width) /\ x' = x)]_vars

\* ------------------------------------------------------------------------
\* Claims about the Element

\* the anchor of a draw: x is the row in elements.py, the column in
\* elements/basic.py
C10_Row(xa, ya) == IF erev = "elements" THEN xa ELSE ya

C10_Col(xa, ya) == IF erev = "elements" THEN ya ELSE xa

C10_Cells(cs) == SelectSeq(cs, LAMBDA c : c.fn \in {"write", "merge_range"})

\* C10: drawing an Element of height h and width w at (r, c) issues exactly
\* one write at (r, c) when h = 1 and w = 1, and otherwise exactly one
\* merge_range from (r, c) to (r + h - 1, c + w - 1).
C10_WriteOrMerge ==
    [][op'.name = "element_draw" =>
        \A xa \in 0..MaxReach, ya \in 0..MaxReach :
            (<<xa, ya>> \in Anchors /\ ElementDraw(xa, ya)) =>
                LET cells == C10_Cells(calls')
                    r == C10_Row(xa, ya)
                    c == C10_Col(xa, ya)
                IN  /\ Len(cells) = 1
                    /\ IF elem.height = 1 /\ elem.width = 1
                       THEN /\ cells[1].fn = "write"
                            /\ cells[1].a[1] = r
                            /\ cells[1].a[2] = c
                       ELSE /\ cells[1].fn = "merge_range"
                            /\ XlCellToRowCol(cells[1].a[1][1]) = <<r, c>>
                            /\ XlCellToRowCol(cells[1].a[1][2])
                                    = <<r + elem.height - 1, c + elem.width - 1>>]_vars

\* ------------------------------------------------------------------------
\* Claims about the Element

\* the error an extent is to be refused with
C11_Signal(v) ==
    IF v.k # "int" THEN "TypeError" ELSE IF v.v <= 0 THEN "ValueError" ELSE "none"

\* C11: every Element that exists has height > 0 and width > 0; constructing
\* with, or assigning, an extent <= 0 signals ValueError and a non-integer
\* one TypeError, and a failed assignment keeps the previous value.
C11_ExtentsPositive ==
    [][/\ elem'.height \in Nat \ {0}
       /\ elem'.width \in Nat \ {0}
       /\ op'.name = "set_height" =>
            \A v \in Extents :
                (ElementSetHeight(v) /\ C11_Signal(v) # "none") =>
                    (op'.err = C11_Signal(v) /\ elem' = elem)
       /\ op'.name = "set_width" =>
            \A v \in Extents :
                (ElementSetWidth(v) /\ C11_Signal(v) # "none") =>
                    (op'.err = C11_Signal(v) /\ elem' = elem)
       /\ (op'.name = "element_new" /\ op'.err # "none") =>
            /\ elem' = elem
            /\ \A h \in Extents, w \in Extents :
                    {C11_Signal(h), C11_Signal(w)} # {"none"} =>
                        ElementNewErr(h, w) \in {C11_Signal(h), C11_Signal(w)} \ {"none"}]_vars

\* a width of 0 was refused and the element kept the width it had
C11_Witness ==
    op.name = "set_width" /\ op.err = "ValueError" /\ elem.width = 2 /\ elem.height = 1

\* the number of add_format calls among the calls cs
C12_AddFormats(cs) == Len(SelectSeq(cs, LAMBDA c : c.fn = "add_format"))

\* C12: over the renders of one Element constructed with a style dict,
\* add_format is called exactly once, on the first render, and every later
\* render keeps the resolved handle; an Element constructed with a resolved
\* handle never calls add_format.  (calls is empty exactly until the first
\* render of the element, and until then style is the style it was
\* constructed with.)
C12_StyleResolvedOnce ==
    [][op'.name = "element_draw" =>
        /\ C12_AddFormats(calls') = IF calls = <<>> /\ elem.style = "dict" THEN 1 ELSE 0
        /\ elem'.style = "format"
        /\ calls # <<>> => elem.style = "format"]_vars

\* the first render of an element constructed with a style dict
C12_Witness ==
    op.name = "element_draw" /\ calls[1].fn = "add_format" /\ elem.style = "format"

\* ------------------------------------------------------------------------
\* Claims about the HeaderElement

\* the constructions of a header with col_width 'auto' and valid extents
C13_AutoArgs ==
    {a \in HeaderArgs : a.col_width = AutoW /\ ElementNewErr(a.h, a.w) = "none"}

C13_SetColumns(cs) == SelectSeq(cs, LAMBDA c : c.fn = "set_column")

\* (len(str(v)) + 2 * p) / w
C13_Width(e) == Frac(Len(PyStr(e.value)) * e.padding[2] + 2 * e.padding[1], e.padding[2] * e.width)

\* C13: a HeaderElement with col_width 'auto' can be constructed, and
\* rendering it with value v, padding p and width w at column c sets the
\* width of exactly the columns c..c+w-1 to (len(str(v)) + 2p) / w: with
\* value "abc" and padding 1.0 that is 5 for w = 1 and 5/2 for w = 2.
C13_AutoWidthSet ==
    [][/\ op'.name = "header_new" =>
            \A a \in C13_AutoArgs :
                HeaderNew(a.value, a.h, a.w, a.style, a.comment, a.col_width, a.padding) =>
                    op'.err = "none"
       /\ (op'.name = "header_draw" /\ elem.col_width = AutoW) =>
            \A a \in Anchors :
                HeaderDraw(a[1], a[2]) =>
                    LET sets == C13_SetColumns(calls')
                        c == C10_Col(a[1], a[2])
                    IN  /\ Len(sets) = 1
                        /\ sets[1].a = <<c, c + elem.width - 1, C13_Width(elem)>>
                        /\ (elem.value = StrV(<<"a", "b", "c">>) /\ elem.padding = <<1, 1>>) =>
                                sets[1].a[3] = <<5, elem.width>>]_vars

\* C14: rendering a HeaderElement with col_width 'auto' that was constructed
\* with the value None calls set_column not once (and raises no error, as
\* no draw of a constructed header does).
C14_NullValueNoSizing ==
    [][(op'.name = "header_new" /\ op'.err = "none") =>
        \A a \in C13_AutoArgs :
            (a.value = NoneS
                /\ HeaderNew(a.value, a.h, a.w, a.style, a.comment, a.col_width, a.padding)) =>
                \A an \in Anchors :
                    C13_SetColumns(HeaderDrawCalls(erev, elem, an[1], an[2])') = <<>>]_vars

\* ------------------------------------------------------------------------
\* Claims about the Matrix

RECURSIVE C16_Sum(_, _)
C16_Sum(f, n) == IF n = 0 THEN 0 ELSE C16_Sum(f, n - 1) + f[n - 1]

\* the largest height among the cells of row i
C16_RowHeight(i) ==
    CHOOSE h \in {mat.matrix[<<i, j>>].height : j \in 0..(mat.ncol - 1)} :
        \A j \in 0..(mat.ncol - 1) : mat.matrix[<<i, j>>].height <= h

\* the (row, column) a write or a merge_range starts at
C16_At(call) ==
    IF call.fn = "write" THEN <<call.a[1], call.a[2]>> ELSE XlCellToRowCol(call.a[1][1])

\* C16: Matrix.draw at the anchor (r, c) of a Matrix with a cell at every
\* key renders the cells in row-major order, cell (i, j) at the row r plus
\* the largest cell heights of the rows before i and at the column c plus
\* the widths of the cells before it in row i; [["A","B"],["C","D"]] with
\* 1 x 1 cells at (0, 0) is four single-cell writes (0,0)=A, (0,1)=B,
\* (1,0)=C, (1,1)=D.
C16_RowMajorDraw ==
    [][(op'.name = "matrix_draw"
            /\ DOMAIN mat.matrix = (0..(mat.nrow - 1)) \X (0..(mat.ncol - 1))) =>
        \A an \in Anchors :
            MatrixDraw(an[1], an[2]) =>
                LET cells == C10_Cells(calls')
                    r == C10_Row(an[1], an[2])
                    c == C10_Col(an[1], an[2])
                IN  /\ op'.err = "none"
                    /\ Len(cells) = mat.nrow * mat.ncol
                    /\ \A i \in 0..(mat.nrow - 1), j \in 0..(mat.ncol - 1) :
                        LET call == cells[i * mat.ncol + j + 1]
                        IN  /\ call.a[Len(call.a)] = mat.matrix[<<i, j>>].value
                            /\ C16_At(call)
                                = <<r + C16_Sum([k \in 0..(mat.nrow - 1) |-> C16_RowHeight(k)], i),
                                    c + C16_Sum([k \in 0..(mat.ncol - 1) |->
                                                    mat.matrix[<<i, k>>].width], j)>>
                    /\ (an = <<0, 0>> /\ mat.nrow = 2 /\ mat.ncol = 2
                            /\ \A key \in DOMAIN mat.matrix :
                                mat.matrix[key].height = 1 /\ mat.matrix[key].width = 1) =>
                        \A n \in 1..4 : cells[n].fn = "write"]_vars

\* extents as the claim admits them: one positive integer, or positive
\* integers per position, in a nested list or a dict of the shape of values
C17_Extents(arg, values) ==
    IF arg.k = "int" THEN arg.v > 0
    ELSE /\ arg.k \in {"list", "dict"}
         /\ arg.k = "list" => ListsErr(arg.l) = "none"
         /\ DOMAIN AsMatrix(arg).d = DOMAIN AsMatrix(values).d
         /\ \A key \in DOMAIN AsMatrix(arg).d :
                AsMatrix(arg).d[key].k = "int" /\ AsMatrix(arg).d[key].v > 0

\* the constructions the claim is about; the column width is a number,
\* which both revisions of the HeaderElement accept
C17_Valid(a) ==
    /\ a.values.k = "list" => ListsErr(a.values.l) = "none"
    /\ C17_Extents(a.height, a.values)
    /\ C17_Extents(a.width, a.values)
    /\ a.col_width.k = "float"

\* C17: constructing a Matrix with heights and/or widths per position, or
\* with one integer height and width, succeeds, and the cell at every
\* (i, j) has the height and the width given for (i, j).
C17_PerPositionExtents ==
    [][op'.name = "matrix_new" =>
        \A a \in MatrixArgs :
            (C17_Valid(a) /\ MatrixNew(a)) =>
                /\ op'.err = "none"
                /\ \A key \in DOMAIN mat'.matrix :
                    /\ mat'.matrix[key].height = ItemAt(AsMatrix(a.height), key).v
                    /\ mat'.matrix[key].width = ItemAt(AsMatrix(a.width), key).v]_vars

\* the error get and set are to signal for the indices xa, ya
C18_Signal(xa, ya) ==
    IF xa.k # "int" \/ ya.k # "int" THEN "TypeError"
    ELSE IF xa.v \notin 0..(mat.nrow - 1) \/ ya.v \notin 0..(mat.ncol - 1) THEN "IndexError"
    ELSE "none"

\* C18: get(x, y) and set(x, y, value) signal TypeError when x or y is not
\* an integer and IndexError when x is outside 0..nrow-1 or y outside
\* 0..ncol-1, and leave the grid unchanged; get with integer indices in
\* range returns the cell stored at (x, y).
C18_GetSetIndices ==
    [][/\ op'.name = "matrix_get" =>
            \A p \in IndexPairs :
                MatrixGet(p[1], p[2]) =>
                    /\ mat' = mat
                    /\ C18_Signal(p[1], p[2]) # "none" => op'.err = C18_Signal(p[1], p[2])
                    /\ (C18_Signal(p[1], p[2]) = "none"
                            /\ <<p[1].v, p[2].v>> \in DOMAIN mat.matrix) =>
                        (op'.err = "none" /\ op'.out = <<mat.matrix[<<p[1].v, p[2].v>>]>>)
       /\ op'.name = "matrix_set" =>
            \A p \in IndexPairs :
                MatrixSet(p[1], p[2], "element") =>
                    /\ C18_Signal(p[1], p[2]) # "none" =>
                        (op'.err = C18_Signal(p[1], p[2]) /\ mat' = mat)]_vars

\* the style dict with the keys of the overlay set, the overlay winning
C19_Over(style, overlay) ==
    [key \in DOMAIN style \cup DOMAIN overlay |->
        IF key \in DOMAIN overlay THEN overlay[key] ELSE style[key]]

\* the style of the cell at key: the style the Matrix was constructed
\* with, overlaid with top, right, bottom and left, in that order, for the
\* edges the cell lies on
C19_Expected(key) ==
    LET t == IF key[1] = 0 THEN C19_Over(built.style, built.top) ELSE built.style
        r == IF key[2] = mat.ncol - 1 THEN C19_Over(t, built.right) ELSE t
        b == IF key[1] = mat.nrow - 1 THEN C19_Over(r, built.bottom) ELSE r
    IN  IF key[2] = 0 THEN C19_Over(b, built.left) ELSE b

\* C19: after the construction of a Matrix with the overlays top, right,
\* bottom, left, the style of every cell on an edge is its original style
\* dict overlaid with the overlay of every edge it lies on, in the order
\* top, right, bottom, left, later keys winning, and the style of every
\* cell on no edge is the original style dict.
C19_BorderOverlays ==
    (op.name = "matrix_new" /\ op.err = "none") =>
        \A key \in DOMAIN mat.matrix :
            /\ mat.matrix[key].style.d = C19_Expected(key)
            /\ (key[1] \notin {0, mat.nrow - 1} /\ key[2] \notin {0, mat.ncol - 1}) =>
                    mat.matrix[key].style.d = built.style

\* a 3 x 3 Matrix constructed with the four overlays: the cell in the
\* middle has the original style, the top right corner the keys of top and
\* right, with the common key c from right
C19_Witness ==
    /\ op.name = "matrix_new"
    /\ op.err = "none"
    /\ mat.nrow = 3
    /\ mat.ncol = 3
    /\ built.top # <<>>
    /\ mat.matrix[<<1, 1>>].style.d = built.style
    /\ mat.matrix[<<0, 2>>].style.d = [c |-> "r", s |-> "s", t |-> "t", r |-> "r"]

\* the corner the ordinal n stands for: its name and its key
C20_Name(n) == <<"topleft", "topright", "bottomright", "bottomleft">>[n]

C20_Key(n) ==
    <<<<0, 0>>, <<0, mat.ncol - 1>>, <<mat.nrow - 1, mat.ncol - 1>>, <<mat.nrow - 1, 0>>>>[n]

\* C20: on a Matrix with a cell at each of its corners, corner(1) is the
\* top-left cell (0, 0), corner(2) the top-right cell (0, ncol-1), corner(3)
\* the bottom-right cell (nrow-1, ncol-1), corner(4) the bottom-left cell
\* (nrow-1, 0), and every ordinal returns the cell its name returns.
C20_CornerOrdinals ==
    [][op'.name = "matrix_corner" =>
        \A n \in 1..4 :
            (MatrixCorner(IntV(n)) /\ \A k \in 1..4 : C20_Key(k) \in DOMAIN mat.matrix) =>
                /\ op'.err = "none"
                /\ op'.out = <<mat.matrix[C20_Key(n)]>>
                /\ op'.out = MatrixCornerRes(erev, mat, CornerName(C20_Name(n))).out]_vars

\* C27: Matrix.set(x, y, value) with value an Element instance and integer
\* indices in range ends without error and stores value at (x, y), where
\* get(x, y) finds it; every other cell, nrow and ncol stay as they were.
C27_SetStores ==
    [][op'.name = "matrix_set" =>
        \A p \in IndexPairs :
            (/\ p[1].k = "int" /\ p[1].v \in 0..(mat.nrow - 1)
             /\ p[2].k = "int" /\ p[2].v \in 0..(mat.ncol - 1)
             /\ MatrixSet(p[1], p[2], "element")) =>
                /\ op'.err = "none"
                /\ <<p[1].v, p[2].v>> \in DOMAIN mat'.matrix
                /\ \A key \in DOMAIN mat.matrix \ {<<p[1].v, p[2].v>>} :
                        key \in DOMAIN mat'.matrix /\ mat'.matrix[key] = mat.matrix[key]
                /\ mat'.nrow = mat.nrow
                /\ mat'.ncol = mat.ncol]_vars

\* ------------------------------------------------------------------------
\* Claims about the Drawer: errors and the history

\* C28: a Drawer call that signals an error leaves the position, both
\* history lists and the checkpoints as they were: a move to a negative
\* coordinate, a reset to a checkpoint name never saved, a fallback(n) with
\* n larger than the length of the history.
C28_ErrorsLeaveState ==
    [][(\/ /\ op'.name = "move"
            /\ op'.err = "ValueError"
            /\ \E a \in MoveArgs : Move(a.dx, a.dy, a.back)
        \/ /\ op'.name = "reset"
            /\ op'.err = "KeyError"
            /\ \E a \in ResetArgs :
                /\ a.cp.k = "str"
                /\ ~CpHas(checkpoints, a.cp.name)
                /\ Reset(a.cp, a.xa, a.ya, a.kw, a.cx, a.cy)
        \/ /\ op'.name = "fallback"
            /\ op'.err # "none"
            /\ \E n \in 1..MaxSize : n > Len(prev_x) /\ Fallback(n)) =>
        UNCHANGED <<x, y, prev_x, prev_y, checkpoints>>]_vars

\* C29: prev_x and prev_y always have the same length; a move, reset or
\* fallback that ends without error appends exactly one entry to both, draw
\* and add_checkpoint leave both as they are, and no call removes an entry.
\* A fallback(1) that ends without error leaves the cursor on the last
\* entry and appends the position it left, so that a second fallback(1)
\* takes the cursor back to where it was before the first.
C29_HistoryGrows ==
    /\ [](Len(prev_x) = Len(prev_y))
    /\ [][/\ SubSeq(prev_x', 1, Len(prev_x)) = prev_x
          /\ SubSeq(prev_y', 1, Len(prev_y)) = prev_y
          /\ (op'.name \in {"move", "move_horizontal", "move_vertical", "reset", "fallback"}
                /\ op'.err = "none") =>
                    Len(prev_x') = Len(prev_x) + 1 /\ Len(prev_y') = Len(prev_y) + 1
          /\ op'.name \in {"draw", "add_checkpoint"} => UNCHANGED <<prev_x, prev_y>>
          /\ (op'.name = "fallback" /\ op'.err = "none" /\ Fallback(1)) =>
                /\ <<x', y'>> = <<prev_x[Len(prev_x)], prev_y[Len(prev_y)]>>
                /\ <<prev_x'[Len(prev_x')], prev_y'[Len(prev_y')]>> = <<x, y>>]_vars

\* two calls of fallback(1) after a move: the cursor is where the move took
\* it, and the history holds the three positions left
C29_Witness ==
    /\ op.name = "fallback"
    /\ op.err = "none"
    /\ Len(prev_x) = 3
    /\ <<x, y>> = <<prev_x[2], prev_y[2]>>
    /\ <<prev_x[3], prev_y[3]>> = <<prev_x[1], prev_y[1]>>
    /\ <<x, y>> # <<prev_x[3], prev_y[3]>>

\* ------------------------------------------------------------------------
\* Claims about the LineElement and the TreeElement

\* C21: a LineElement over a non-empty list of components, if vertical, has
\* the sum of their heights as its height and the largest of their widths
\* as its width; if horizontal, the sum of their widths as its width and
\* the largest of their heights as its height.
C21_LineExtent ==
    LET n == Len(comp.elements)
        hs == [k \in 0..(n - 1) |-> comp.elements[k + 1].height]
        ws == [k \in 0..(n - 1) |-> comp.elements[k + 1].width]
        largest(f, m) == (\A k \in 0..(n - 1) : f[k] <= m) /\ (\E k \in 0..(n - 1) : f[k] = m)
    IN  n > 0 =>
            IF comp.vertical
            THEN comp.height = C16_Sum(hs, n) /\ largest(ws, comp.width)
            ELSE comp.width = C16_Sum(ws, n) /\ largest(hs, comp.height)

\* a vertical line just made of two components of different extents
C21_Witness ==
    /\ op.name = "line_new"
    /\ op.err = "none"
    /\ comp.vertical
    /\ Len(comp.elements) = 2
    /\ comp.elements[1].height # comp.elements[2].height
    /\ comp.height = comp.elements[1].height + comp.elements[2].height
    /\ comp.width > 1
    /\ comp.height # comp.width

\* the rows and columns a write or a merge_range covers
C22_Rect(call) ==
    LET from == C16_At(call)
        to == IF call.fn = "write" THEN from ELSE XlCellToRowCol(call.a[1][2])
    IN  [r1 |-> from[1], c1 |-> from[2], r2 |-> to[1], c2 |-> to[2]]

C22_Disjoint(p, q) == p.r2 < q.r1 \/ q.r2 < p.r1 \/ p.c2 < q.c1 \/ q.c2 < p.c1

\* C22: LineElement.draw at the anchor (r, c) renders the components in
\* list order, the k-th at the anchor shifted along the line only, by the
\* heights (vertical: rows) or the widths (horizontal: columns) of the
\* components before it; a component starts where the one before it ends,
\* and no two components cover a common cell.
C22_LinePlacement ==
    [][op'.name = "line_draw" =>
        \A an \in Anchors :
            LineDraw(an[1], an[2]) =>
                LET cells == C10_Cells(calls')
                    n == Len(comp.elements)
                    r == C10_Row(an[1], an[2])
                    c == C10_Col(an[1], an[2])
                    along == [k \in 0..(n - 1) |->
                                IF comp.vertical THEN comp.elements[k + 1].height
                                ELSE comp.elements[k + 1].width]
                IN  /\ Len(cells) = n
                    /\ \A k \in 1..n :
                        /\ cells[k].a[Len(cells[k].a)] = comp.elements[k].value
                        /\ C16_At(cells[k])
                            = IF comp.vertical THEN <<r + C16_Sum(along, k - 1), c>>
                              ELSE <<r, c + C16_Sum(along, k - 1)>>
                    /\ \A k \in 1..(n - 1) :
                        C16_At(cells[k + 1])
                            = IF comp.vertical
                              THEN <<C16_At(cells[k])[1] + comp.elements[k].height, c>>
                              ELSE <<r, C16_At(cells[k])[2] + comp.elements[k].width>>
                    /\ \A i \in 1..n, j \in 1..n :
                        i < j => C22_Disjoint(C22_Rect(cells[i]), C22_Rect(cells[j]))]_vars

\* a line of three components of different extents, drawn
C22_Witness ==
    /\ op.name = "line_draw"
    /\ Len(comp.elements) = 3
    /\ comp.elements[1].height # comp.elements[2].height
    /\ Len(C10_Cells(calls)) = 3
    /\ C16_At(C10_Cells(calls)[3]) # C16_At(C10_Cells(calls)[1])

\* C23: TreeElement(parent, children) with an Element parent as wide as the
\* children has the height parent.height + children.height and the width
\* of the parent; with different widths the construction signals
\* ValueError and makes no tree.
C23_TreeExtent ==
    /\ [](\A p \in TreeParents, c \in TreeChildren :
            "value" \in DOMAIN p =>
                IF p.width = c.width
                THEN /\ TreeNewErr(erev, p, c) = "none"
                     /\ TreeNewTree(p, c).height = p.height + c.height
                     /\ TreeNewTree(p, c).width = p.width
                ELSE TreeNewErr(erev, p, c) = "ValueError")
    /\ [][op'.name = "tree_new" =>
            IF op'.err = "none"
            THEN /\ comp' = TreeNewTree(comp'.parent, comp'.children)
                 /\ TreeNewErr(erev, comp'.parent, comp'.children) = "none"
            ELSE comp' = comp]_vars

\* a tree just made over a line of two components
C23_Witness ==
    /\ op.name = "tree_new"
    /\ op.err = "none"
    /\ "value" \in DOMAIN comp.parent
    /\ Len(comp.children.elements) = 2
    /\ comp.children.height > 1
    /\ comp.height = comp.parent.height + comp.children.height
    /\ comp.width = comp.children.width

\* C24: TreeElement.draw at the anchor (r, c) renders the parent at (r, c)
\* first and then the children at (r + parent.height, c): the children
\* start on the row below the last row of the parent, in its column, and
\* cover no cell of the parent.
C24_TreePlacement ==
    [][(op'.name = "tree_draw" /\ "value" \in DOMAIN comp.parent) =>
        \A an \in Anchors :
            TreeDraw(an[1], an[2]) =>
                LET cells == C10_Cells(calls')
                    r == C10_Row(an[1], an[2])
                    c == C10_Col(an[1], an[2])
                    below == <<r + comp.parent.height, c>>
                IN  /\ Len(cells) = 1 + Len(comp.children.elements)
                    /\ cells[1].a[Len(cells[1].a)] = comp.parent.value
                    /\ C16_At(cells[1]) = <<r, c>>
                    /\ cells[2].a[Len(cells[2].a)] = comp.children.elements[1].value
                    /\ C16_At(cells[2]) = below
                    /\ SubSeq(calls', Len(calls') - Len(LineDrawCalls(erev, comp.children, 1, 0, 0)) + 1,
                              Len(calls'))
                        = IF erev = "elements"
                          THEN LineDrawCalls(erev, comp.children, 1, below[1], below[2])
                          ELSE LineDrawCalls(erev, comp.children, 1, below[2], below[1])
                    /\ \A k \in 2..Len(cells) :
                        /\ C22_Rect(cells[k]).r1 > r + comp.parent.height - 1
                        /\ C22_Disjoint(C22_Rect(cells[1]), C22_Rect(cells[k]))]_vars

\* a tree with a parent of two rows above two children, drawn
C24_Witness ==
    /\ op.name = "tree_draw"
    /\ "value" \in DOMAIN comp.parent
    /\ comp.parent.height = 2
    /\ Len(comp.children.elements) = 2
    /\ Len(C10_Cells(calls)) = 3
    /\ C16_At(C10_Cells(calls)[2])[1] = C16_At(C10_Cells(calls)[1])[1] + 2

\* ------------------------------------------------------------------------
\* Claims about the Dictionary

\* the number of content values of a field, and its vertical spacing
C25_Values(f) == IF f.content.k = "list" THEN Len(f.content.l) ELSE 1

C25_Vspace(f) == IF f.vspace.k = "none" THEN comp.vspace ELSE f.vspace.v

\* C25: the height of a Dictionary is the sum, over its fields, of the
\* larger of the label height and the number of content values of the
\* field times the content height, plus the vertical spacing of the field.
C25_DictHeight ==
    LET n == Len(comp.structure)
        stacked(f) == C25_Values(f) * comp.content_params[1]
        rows == [k \in 0..(n - 1) |->
                    (IF comp.field_params[1] > stacked(comp.structure[k + 1])
                     THEN comp.field_params[1] ELSE stacked(comp.structure[k + 1]))
                    + C25_Vspace(comp.structure[k + 1])]
    IN  comp.height = C16_Sum(rows, n)

\* C26: the width of a Dictionary is the largest, over its fields, of label
\* width + content width + hspace, whatever hspace and vspace are.
C26_DictWidth ==
    comp.width = comp.field_params[2] + comp.content_params[2] + comp.hspace

\* the position, among the cells written, of the label of field k
C30_Label(k) ==
    1 + C16_Sum([j \in 0..(Len(comp.structure) - 1) |-> 1 + C25_Values(comp.structure[j + 1])],
                k - 1)

\* C30: Dictionary.draw at the anchor (r, c) writes every label and every
\* content cell inside the rows r .. r + height - 1 and the columns
\* c .. c + width - 1, and the label of a field covers no cell of a later
\* field.
C30_DictInsideBox ==
    [][op'.name = "dict_draw" =>
        \A an \in Anchors :
            DictDraw(an[1], an[2]) =>
                LET cells == C10_Cells(calls')
                    r == an[1]
                    c == an[2]
                IN  /\ \A i \in 1..Len(cells) :
                        /\ C22_Rect(cells[i]).r1 >= r
                        /\ C22_Rect(cells[i]).r2 <= r + comp.height - 1
                        /\ C22_Rect(cells[i]).c1 >= c
                        /\ C22_Rect(cells[i]).c2 <= c + comp.width - 1
                    /\ \A k \in 1..Len(comp.structure) :
                        \A i \in (C30_Label(k + 1))..Len(cells) :
                            C22_Disjoint(C22_Rect(cells[C30_Label(k)]), C22_Rect(cells[i]))]_vars

====
